---------------------------- MODULE Spec2Model ----------------------------
(***************************************************************************)
(* A model of the-claude-index scrapers (scripts/github_api.py,            *)
(* scripts/initial_scrape.py, scripts/update_today.py) and of the          *)
(* transport, the state file and the marker loop of                        *)
(* scripts/update_doc_markers.py.                                          *)
(*                                                                         *)
(* These specifications share the module:                                  *)
(*   SpecTransport  one call of the retrying HTTP transport                *)
(*   SpecSplit      the sub-window arithmetic of _fetch_repos_adaptive     *)
(*   SpecAdaptive   fetch_unique_repo_count with free remote answers       *)
(*   SpecWindow     fetch_unique_repo_count when no window below the whole *)
(*                  day is over the cap: the pagination loop               *)
(*   SpecFloor      fetch_unique_repo_count when every window is over cap  *)
(*                  (SpecFloorFair: the same, with weak fairness)          *)
(*   SpecCrawl      the crawl loops of initial_scrape and update_today     *)
(*   SpecMerge      the split loop of _fetch_repos_adaptive merging what   *)
(*                  its recursive calls return                             *)
(*   SpecSave       save_data and save_state (update_doc_markers.py) step  *)
(*                  by step, with write errors and crashes                 *)
(*   SpecBackoff    the retry loops of the four scripts                    *)
(*   SpecLight      update_today.main over a file with more failed dates   *)
(*                  than it retries                                        *)
(*   SpecMarkers    update_doc_markers.main: the markers, their            *)
(*                  checkpoints, the interrupt                             *)
(*   SpecCooldown   initial_scrape.main over enough dates for two          *)
(*                  cooldowns                                              *)
(*   SpecCheckpoint initial_scrape.main over enough dates for two          *)
(*                  checkpoints, with save_data step by step and the       *)
(*                  process killed or interrupted at any point             *)
(***************************************************************************)
EXTENDS Integers, Sequences, FiniteSets, TLC

VARIABLES
    \* ---- transport (one call of _api_request / fetch_commit_count)
    t_pc,          \* "idle" | "running" | "done"
    t_variant,     \* which copy of the loop: "api" | "initial" | "today"
    t_url,         \* the URL of the Request object built before the loop
    t_attempt,     \* the loop variable `attempt`
    t_now,         \* seconds elapsed since the call started
    t_log,         \* one entry per HTTP attempt: url, time, outcome, sleep
    t_result,      \* the value returned
    \* ---- sub-window arithmetic
    sp_start,      \* start_min
    sp_end,        \* end_min
    sp_total,      \* total_count of the window being split
    sp_i,          \* loop variable i
    sp_subs,       \* the sub-windows generated so far
    \* ---- fetch_unique_repo_count / _fetch_repos_adaptive
    f_pc,          \* "idle" | "day" | "adaptive" | "done"
    f_remote,      \* {} : free answers; {r} : every count query reports
                   \* r.total and every floor page answers r.page
    f_cur,         \* the running _fetch_repos_for_window / floor scan
    f_stack,       \* frames of _fetch_repos_adaptive waiting in their split loop
    f_result,      \* return value of fetch_unique_repo_count
    f_hist,        \* what the remote answered during this call: dayTotal and
                   \* winTotal are the answers to the count queries of the
                   \* whole day and of the first _fetch_repos_adaptive call
    \* ---- crawl loops
    c_pc,          \* "idle" | "full" | "light"; in SpecCheckpoint also
                   \* "checkpoint" | "final" | "killed" | "interrupted"
    c_today,       \* today's date (UTC), as a day number; START_DATE is day 1
    c_disk,        \* the contents of contributions.json ({} : no file)
    c_contrib,     \* data["contributions"] in memory
    c_failed,      \* the set failed_dates in memory
    c_dates,       \* dates_to_fetch
    c_idx,         \* position in dates_to_fetch (1-based)
    c_counters,    \* request_count, new_successes, new_failures, changed
    c_last,        \* the last fetch: its date and its outcome
    c_run,         \* bookkeeping of the current run: what was loaded, writes,
                   \* the dates fetched so far, where the process died
    c_now,         \* the clock, in ticks of one inter-request sleep
    \* ---- the split loop of _fetch_repos_adaptive, seen from one parent
    m_pc,          \* "idle" | "loop" | "done"
    m_n_splits,    \* n_splits
    m_i,           \* loop variable i
    m_all_repos,   \* all_repos
    m_sub_repos,   \* what each recursive call returned, in call order
    m_result,      \* {} : not returned yet; {s} : the parent returned s
    \* ---- one call of save_data / save_state
    s_pc,          \* "idle" | "saving" | "returned" | "raised" | "dead"
    s_variant,     \* "save_data" | "save_state"
    s_doc,         \* the document being saved ({} : none)
    s_tmp,         \* the temporary file of the call ({} : no such file)
    s_old,         \* what the destination held when the call began
    s_out,         \* the contents of ai_docs_index.json ({} : no file)
    \* ---- update_doc_markers.main (save_state taken as one step)
    k_pc,          \* "idle" | "marker" | "done" | "interrupted"
    k_file,        \* ai_docs_index.json as the run's saves leave it
    k_state,       \* the dict `state`
    k_sel,         \* selected_markers
    k_m,           \* position in selected_markers (1-based)
    k_cands,       \* len(candidates): the candidates are the repos 1..k_cands
    k_i,           \* position in candidates (1-based)
    k_failed,      \* the set `failed` of process_marker
    k_processed,   \* processed
    k_saves        \* the runs started and the place of the latest save

transportVars == <<t_pc, t_variant, t_url, t_attempt, t_now, t_log, t_result>>
splitVars     == <<sp_start, sp_end, sp_total, sp_i, sp_subs>>
fetchVars     == <<f_pc, f_remote, f_cur, f_stack, f_result, f_hist>>
crawlVars     == <<c_pc, c_today, c_disk, c_contrib, c_failed, c_dates, c_idx,
                   c_counters, c_last, c_run, c_now>>
mergeVars     == <<m_pc, m_n_splits, m_i, m_all_repos, m_sub_repos, m_result>>
saveVars      == <<s_pc, s_variant, s_doc, s_tmp, s_old, s_out>>
markerVars    == <<k_pc, k_file, k_state, k_sel, k_m, k_cands, k_i, k_failed,
                   k_processed, k_saves>>
\* The crawl's variables other than the file.
crawlMemVars  == <<c_pc, c_today, c_contrib, c_failed, c_dates, c_idx,
                   c_counters, c_last, c_run, c_now>>
vars == <<transportVars, splitVars, fetchVars, crawlVars, mergeVars, saveVars,
          markerVars>>

Max(a, b) == IF a >= b THEN a ELSE b
Min(a, b) == IF a <= b THEN a ELSE b

RECURSIVE Pow2(_)
Pow2(k) == IF k = 0 THEN 1 ELSE 2 * Pow2(k - 1)

(***************************************************************************)
(* Transport                                                               *)
(***************************************************************************)
MAX_RETRIES == 3

\* Bounds of the remote's answers.
MaxResetDelta == 10     \* X-Ratelimit-Reset is at most this far ahead
MaxRetryAfter == 2      \* Retry-After is at most this many seconds

Urls == {"u1", "u2"}
Variants == {"api", "initial", "today"}

\* An optional value (a header, a JSON key) is {} when absent and {v} when present.
Bodies == {[total_count |-> {}], [total_count |-> {5}]}

\* status 0 stands for urllib.error.URLError / OSError (no HTTP status).
\* Headers carry integer seconds, as the remote's contract gives them
\* (X-Ratelimit-Reset: epoch seconds, Retry-After: seconds).
Outcome(status, reset, retry_after, body) ==
    [status |-> status, reset |-> reset, retry_after |-> retry_after, body |-> body]

NoBody == [total_count |-> {}]

Outcomes(now) ==
    {Outcome(200, {}, {}, b) : b \in Bodies}
      \cup {Outcome(403, r, {}, NoBody) :
               r \in {{}} \cup {{now + d} : d \in (-1)..MaxResetDelta}}
      \cup {Outcome(429, {}, ra, NoBody) :
               ra \in {{}} \cup {{s} : s \in 0..MaxRetryAfter}}
      \cup {Outcome(s, {}, {}, NoBody) : s \in {500, 503, 404, 422, 0}}

IsNetworkError(o) == o.status = 0
IsSuccess(o) == o.status = 200

\* The branches of the except clauses that end in `continue`.
Retryable(o) ==
    \/ IsNetworkError(o)
    \/ o.status = 403
    \/ o.status = 429
    \/ o.status >= 500

\* wait = (2 ** attempt) * 5
BackoffLinear(attempt) == (attempt + 1) * 5
Backoff(attempt) == Pow2(attempt) * 5

\* wait = max(int(reset_ts) - int(time.time()), 1)
RateLimitWaitNoFloor(reset, now) == reset - now
RateLimitWait(reset, now) == Max(reset - now, 1)

\* The argument of time.sleep in the attempt, {} when the attempt does not sleep.
SleepForNotLast(o, attempt, now) ==
    IF IsSuccess(o) \/ attempt + 1 >= MAX_RETRIES THEN {}
    ELSE IF IsNetworkError(o) THEN {Backoff(attempt)}
    ELSE IF o.status = 403 THEN
        IF o.reset # {}
        THEN {RateLimitWait(CHOOSE r \in o.reset : TRUE, now) + 1}
        ELSE {60}
    ELSE IF o.status = 429 THEN
        IF o.retry_after # {} THEN o.retry_after ELSE {120}
    ELSE IF o.status >= 500 THEN {Backoff(attempt)}
    ELSE {}
SleepFor(o, attempt, now) ==
    IF IsSuccess(o) THEN {}
    ELSE IF IsNetworkError(o) THEN {Backoff(attempt)}
    ELSE IF o.status = 403 THEN
        IF o.reset # {}
        THEN {RateLimitWait(CHOOSE r \in o.reset : TRUE, now) + 1}
        ELSE {60}
    ELSE IF o.status = 429 THEN
        IF o.retry_after # {} THEN o.retry_after ELSE {120}
    ELSE IF o.status >= 500 THEN {Backoff(attempt)}
    ELSE {}

\* The returned value on HTTP 2xx: the parsed body (_api_request) or
\* body.get("total_count", 0) (the two fetch_commit_count copies).
SuccessValue(variant, o) ==
    IF variant = "api" THEN [kind |-> "body", val |-> o.body.total_count]
    ELSE [kind |-> "count",
          val |-> IF o.body.total_count = {} THEN {0} ELSE o.body.total_count]

ReturnNone == [kind |-> "none", val |-> {}]
Pending == [kind |-> "pending", val |-> {}]

\* The value of `attempt` in the next iteration of `for attempt in range(MAX_RETRIES)`.
NextAttemptFreeRateLimit(attempt, o) ==
    IF o.status \in {403, 429} THEN attempt ELSE attempt + 1
NextAttempt(attempt, o) == attempt + 1

\* Whether the except branch ends in `continue` (TRUE) or in `return None`.
ContinuesAfterRetryAll(o) == ~IsSuccess(o)
ContinuesAfter(o) == Retryable(o)

SumSleep(s) == IF s = {} THEN 0 ELSE CHOOSE x \in s : TRUE

ApiCall ==
    /\ t_pc \in {"idle", "done"}
    /\ \E v \in Variants, u \in Urls :
          /\ t_variant' = v
          /\ t_url' = u
    /\ t_pc' = "running"
    /\ t_attempt' = 0
    /\ t_now' = 0
    /\ t_log' = <<>>
    /\ t_result' = Pending
    /\ UNCHANGED <<splitVars, fetchVars, crawlVars, mergeVars, saveVars, markerVars>>

\* One iteration of the retry loop: the request, the classification of its
\* outcome, the sleep, and either the return or the next iteration (the loop's
\* exit to `return None` included).
ApiAttempt(o) ==
    /\ t_pc = "running"
    /\ t_attempt < MAX_RETRIES
    /\ LET slept == SleepFor(o, t_attempt, t_now)
           next == NextAttempt(t_attempt, o)
       IN  /\ t_log' = Append(t_log, [url |-> t_url, at |-> t_now, attempt |-> t_attempt,
                                       outcome |-> o, slept |-> slept])
           /\ t_now' = t_now + SumSleep(slept)
           /\ IF IsSuccess(o)
              THEN /\ t_result' = SuccessValue(t_variant, o)
                   /\ t_pc' = "done"
                   /\ t_attempt' = t_attempt
              ELSE IF ContinuesAfter(o)
              THEN /\ t_attempt' = next
                   /\ IF next < MAX_RETRIES
                      THEN t_pc' = "running" /\ t_result' = t_result
                      ELSE t_pc' = "done" /\ t_result' = ReturnNone
              ELSE /\ t_result' = ReturnNone
                   /\ t_pc' = "done"
                   /\ t_attempt' = t_attempt
    /\ UNCHANGED <<t_variant, t_url>>
    /\ UNCHANGED <<splitVars, fetchVars, crawlVars, mergeVars, saveVars, markerVars>>

(***************************************************************************)
(* Transport of update_doc_markers: api_get_json                           *)
(***************************************************************************)
MAX_RETRIES_MARKERS == 4    \* MAX_RETRIES of update_doc_markers

\* wait = (2 ** attempt) * 3
BackoffMarkers(attempt) == Pow2(attempt) * 3

\* _wait_rate_limit: max(int(reset) - int(time.time()) + 1, 1), or 60
WaitRateLimit(reset, now) ==
    IF reset # {} THEN Max((CHOOSE r \in reset : TRUE) - now + 1, 1) ELSE 60

\* The argument of time.sleep in one attempt of api_get_json.
SleepForMarkers(o, attempt, now) ==
    IF IsSuccess(o) THEN {}
    ELSE IF IsNetworkError(o) THEN {BackoffMarkers(attempt)}
    ELSE IF o.status = 404 THEN {}
    ELSE IF o.status \in {403, 429} THEN {WaitRateLimit(o.reset, now)}
    ELSE IF o.status >= 500 THEN {BackoffMarkers(attempt)}
    ELSE {}

\* The (body, headers, status) triple: val is the body's total_count on 2xx and
\* the status (none after exhaustion) when the body is None.
MarkersValue(o) == [kind |-> "body", val |-> o.body.total_count]
MarkersNone(status) == [kind |-> "none", val |-> status]

ApiGetJsonCall ==
    /\ t_pc \in {"idle", "done"}
    /\ t_variant' = "markers"
    /\ \E u \in Urls : t_url' = u
    /\ t_pc' = "getting"
    /\ t_attempt' = 0
    /\ t_now' = 0
    /\ t_log' = <<>>
    /\ t_result' = Pending
    /\ UNCHANGED <<splitVars, fetchVars, crawlVars, mergeVars, saveVars, markerVars>>

\* One iteration of the retry loop of api_get_json.
ApiGetJson(o) ==
    /\ t_pc = "getting"
    /\ t_attempt < MAX_RETRIES_MARKERS
    /\ LET slept == SleepForMarkers(o, t_attempt, t_now)
           next == t_attempt + 1
       IN  /\ t_log' = Append(t_log, [url |-> t_url, at |-> t_now, attempt |-> t_attempt,
                                       outcome |-> o, slept |-> slept])
           /\ t_now' = t_now + SumSleep(slept)
           /\ IF IsSuccess(o)
              THEN /\ t_result' = MarkersValue(o)
                   /\ t_pc' = "done"
                   /\ t_attempt' = t_attempt
              ELSE IF o.status # 404 /\ Retryable(o)
              THEN /\ t_attempt' = next
                   /\ IF next < MAX_RETRIES_MARKERS
                      THEN t_pc' = "getting" /\ t_result' = t_result
                      ELSE t_pc' = "done" /\ t_result' = MarkersNone({})
              ELSE /\ t_result' = MarkersNone({o.status})
                   /\ t_pc' = "done"
                   /\ t_attempt' = t_attempt
    /\ UNCHANGED <<t_variant, t_url>>
    /\ UNCHANGED <<splitVars, fetchVars, crawlVars, mergeVars, saveVars, markerVars>>

\* The remote of SpecBackoff: a reset header, when present, lies MaxResetDelta
\* ahead and a Retry-After header, when present, asks for MaxRetryAfter.
BackoffOutcomes(now) ==
    {o \in Outcomes(now) : /\ o.reset \subseteq {now + MaxResetDelta}
                           /\ o.retry_after \subseteq {MaxRetryAfter}}

(***************************************************************************)
(* Time strings and the sub-window arithmetic of _fetch_repos_adaptive     *)
(***************************************************************************)
CAP == 1000             \* total_count > 1000: the window is not enumerable
MAX_DEPTH == 5          \* max_depth
MAX_SPLITS == 12
SPLIT_UNIT == 800
FLOOR_PAGES == 10       \* range(1, 11)
PAGE_SIZE == 100
DAY_MINUTES == 1440     \* "24:00"

\* 'HH:MM' is modelled as the pair <<HH, MM>>.
\* f"{minutes // 60:02d}:{minutes % 60:02d}"
MinutesToTime(minutes) == <<minutes \div 60, minutes % 60>>
\* int(h) * 60 + int(m)
TimeToMinutes(time_str) == time_str[1] * 60 + time_str[2]

\* n_splits = min(max(2, total_count // 800), 12); n_splits = min(n_splits, span)
NSplitsNoSpanCap(total_count, span) ==
    Min(Max(2, total_count \div SPLIT_UNIT), MAX_SPLITS)
NSplits(total_count, span) ==
    Min(Min(Max(2, total_count \div SPLIT_UNIT), MAX_SPLITS), span)

\* step = span / n_splits is a binary64 float.  int(i * step) equals
\* floor(i * span / n) for every i < n; n * step itself rounds below span for
\* the spans listed here (computed with IEEE-754 doubles for 1 <= span <= 1441,
\* 2 <= n <= 12), so int(n * step) is span - 1 there.
FloatShort7 ==
    {61, 115, 122, 230, 237, 244, 251, 453, 460, 467, 474, 481, 488,
     495, 502, 509, 899, 906, 913, 920, 927, 934, 941, 948, 955, 962,
     969, 976, 983, 990, 997, 1004, 1011, 1018}
FloatShort11 ==
    {15, 30, 49, 60, 98, 109, 120, 185, 196, 207, 218, 229, 240, 251,
     359, 370, 381, 392, 403, 414, 425, 436, 447, 458, 469, 480, 491,
     502, 707, 718, 729, 740, 751, 762, 773, 784, 795, 806, 817, 828,
     839, 850, 861, 872, 883, 894, 905, 916, 927, 938, 949, 960, 971,
     982, 993, 1004, 1015, 1414, 1425, 1436}

\* int(i * step)
IntStep(i, span, n) ==
    IF i = n /\ ((n = 7 /\ span \in FloatShort7) \/ (n = 11 /\ span \in FloatShort11))
    THEN span - 1
    ELSE (i * span) \div n

\* sub_start = start_min + int(i * step)
SubStart(start_min, span, n, i) == start_min + IntStep(i, span, n)

\* sub_end = start_min + int((i + 1) * step); if i == n_splits - 1: sub_end = end_min
SubEndNoLastFix(start_min, end_min, span, n, i) ==
    start_min + IntStep(i + 1, span, n)
SubEnd(start_min, end_min, span, n, i) ==
    IF i = n - 1 THEN end_min ELSE start_min + IntStep(i + 1, span, n)

\* The window strings handed to the recursive call for sub-window i.
SubWindow(start_min, end_min, n, i) ==
    [start |-> MinutesToTime(SubStart(start_min, end_min - start_min, n, i)),
     end   |-> MinutesToTime(SubEnd(start_min, end_min, end_min - start_min, n, i))]

\* Inputs of the split arithmetic: windows inside one day and the total counts
\* that give every split factor 2..12 (and one beyond the clamp).
SplitStarts == {0, 600}
SplitTotals == {CAP + 1} \cup {SPLIT_UNIT * k : k \in 2..(MAX_SPLITS + 1)}

InitSplit ==
    /\ sp_start \in SplitStarts
    /\ sp_end \in (sp_start + 2)..DAY_MINUTES
    /\ sp_total \in SplitTotals
    /\ sp_i = 0
    /\ sp_subs = <<>>

\* One iteration of `for i in range(n_splits)`: the sub-window it computes.
SplitStep ==
    /\ sp_i < NSplits(sp_total, sp_end - sp_start)
    /\ sp_subs' = Append(sp_subs,
                         SubWindow(sp_start, sp_end,
                                   NSplits(sp_total, sp_end - sp_start), sp_i))
    /\ sp_i' = sp_i + 1
    /\ UNCHANGED <<sp_start, sp_end, sp_total>>
    /\ UNCHANGED <<transportVars, fetchVars, crawlVars, mergeVars, saveVars, markerVars>>

(***************************************************************************)
(* fetch_unique_repo_count, _fetch_repos_for_window, _fetch_repos_adaptive *)
(*                                                                         *)
(* A request is answered by {} (the transport returned None) or by {x}:    *)
(* {total_count} for the page-size-1 request, {set of repository names}    *)
(* for a page of items.                                                    *)
(***************************************************************************)
Ids == {"r1", "r2"}

\* Bounds of the remote's answers in SpecAdaptive.
MaxOver == 3            \* at most this many queries of one call report > CAP

FreeTotals == {0, 5, 150, CAP, CAP + 1, 3 * SPLIT_UNIT}
\* The totals of SpecWindow.
WindowTotals == {0, 1, 5, PAGE_SIZE, 150, CAP - 1, CAP, CAP + 1}
SynthTotals == {CAP + 1, 3 * SPLIT_UNIT, MAX_SPLITS * SPLIT_UNIT}
SynthItems == {"r1"}
\* A page of the floor scan in SpecFloor: the fixed items, or no items at all.
SynthPageAnswers == {{SynthItems}, {{}}}
\* The synthetic remotes of SpecFloor: one total and one page answer per call.
SynthRemotes == {[total |-> t, page |-> a] : t \in SynthTotals, a \in SynthPageAnswers}

NoneResult == [kind |-> "none", val |-> 0]
PendingResult == [kind |-> "pending", val |-> 0]
CountResult(n) == [kind |-> "count", val |-> n]

\* total_count > 1000
OverCapInclusive(total_count) == total_count >= CAP
OverCap(total_count) == total_count > CAP

\* pages_needed = (total_count + 99) // 100
PagesNeededFloor(total_count) == total_count \div PAGE_SIZE
PagesNeeded(total_count) == (total_count + (PAGE_SIZE - 1)) \div PAGE_SIZE

\* depth >= max_depth or span < 2
AtFloorNoDepthLimit(depth, span) == span < 2
AtFloor(depth, span) == depth >= MAX_DEPTH \/ span < 2

\* if sub_repos is not None: all_repos.update(sub_repos)
MergeSubReplace(all_repos, sub) ==
    IF sub.none THEN all_repos ELSE sub.repos
MergeSub(all_repos, sub) ==
    IF sub.none THEN all_repos ELSE all_repos \cup sub.repos

NoCur ==
    [kind |-> "none", start |-> <<0, 0>>, end |-> <<0, 0>>, depth |-> 0,
     phase |-> "none", total |-> 0, page |-> 0, repos |-> {}]

\* The state of a window call right before its first request.
WindowCall(kind, start_time, end_time, depth) ==
    [kind |-> kind, start |-> start_time, end |-> end_time, depth |-> depth,
     phase |-> "first", total |-> 0, page |-> 0, repos |-> {}]

Returned(repos) == [none |-> FALSE, repos |-> repos]
\* `return None` of a window whose count query failed.
ReturnedNoneAsEmpty == [none |-> FALSE, repos |-> {}]
ReturnedNone == [none |-> TRUE, repos |-> {}]

\* fetch_unique_repo_count's own return: None, or len(repos).
TopResult(v) == IF v.none THEN NoneResult ELSE CountResult(Cardinality(v.repos))

RECURSIVE Deliver(_, _)
\* A split loop that gives up as soon as one recursive call returns None.
DeliverNonePropagates(stack, v) ==
    IF stack # <<>> /\ v.none
    THEN Deliver(SubSeq(stack, 1, Len(stack) - 1), v)
    ELSE
        IF stack = <<>>
        THEN [pc |-> "done", stack |-> <<>>, cur |-> NoCur, result |-> TopResult(v)]
        ELSE LET top == stack[Len(stack)]
                 rest == SubSeq(stack, 1, Len(stack) - 1)
                 merged == MergeSub(top.all_repos, v)
                 i2 == top.i + 1
             IN  IF i2 < top.n
                 THEN LET w == SubWindow(TimeToMinutes(top.start), TimeToMinutes(top.end),
                                         top.n, i2)
                      IN  [pc |-> "adaptive",
                           stack |-> Append(rest, [top EXCEPT !.i = i2, !.all_repos = merged]),
                           cur |-> WindowCall("win", w.start, w.end, top.depth + 1),
                           result |-> PendingResult]
                 ELSE Deliver(rest, Returned(merged))
\* A call of _fetch_repos_adaptive returns v to the split loop that made it
\* (the frame on top of the stack): the loop merges v, and either makes its
\* next recursive call or, after the last sub-window, returns all_repos to its
\* own caller.  With no frame left, v is the result of the top-level call.
Deliver(stack, v) ==
    IF stack = <<>>
    THEN [pc |-> "done", stack |-> <<>>, cur |-> NoCur, result |-> TopResult(v)]
    ELSE LET top == stack[Len(stack)]
             rest == SubSeq(stack, 1, Len(stack) - 1)
             merged == MergeSub(top.all_repos, v)
             i2 == top.i + 1
         IN  IF i2 < top.n
             THEN LET w == SubWindow(TimeToMinutes(top.start), TimeToMinutes(top.end),
                                     top.n, i2)
                  IN  [pc |-> "adaptive",
                       stack |-> Append(rest, [top EXCEPT !.i = i2, !.all_repos = merged]),
                       cur |-> WindowCall("win", w.start, w.end, top.depth + 1),
                       result |-> PendingResult]
             ELSE Deliver(rest, Returned(merged))

\* The running window call returns v: to fetch_unique_repo_count (kind "day"),
\* or up the stack of _fetch_repos_adaptive calls.
Return(v) ==
    LET d == Deliver(f_stack, v)
    IN  /\ f_pc' = d.pc
        /\ f_stack' = d.stack
        /\ f_cur' = d.cur
        /\ f_result' = d.result

FetchStart(remote) ==
    /\ f_pc \in {"idle", "done"}
    /\ f_pc' = "day"
    /\ f_remote' = remote
    /\ f_cur' = WindowCall("day", <<0, 0>>, <<24, 0>>, 0)
    /\ f_stack' = <<>>
    /\ f_result' = PendingResult
    /\ f_hist' = [anyFail |-> FALSE, allOver |-> TRUE, overs |-> 0,
                  dayTotal |-> {}, lastLeaf |-> "none", deepest |-> 0,
                  winTotal |-> {}, subAnswered |-> FALSE]
    /\ UNCHANGED <<transportVars, splitVars, crawlVars, mergeVars, saveVars, markerVars>>

\* The page=1, per_page=1 request of _fetch_repos_for_window and what its
\* answer decides, in fetch_unique_repo_count (kind "day") or in
\* _fetch_repos_adaptive (kind "win").
FirstRequest(resp) ==
    /\ f_pc \in {"day", "adaptive"}
    /\ f_cur.phase = "first"
    /\ LET total == IF resp = {} THEN 0 ELSE CHOOSE t \in resp : TRUE
           over == resp # {} /\ OverCap(total)
           start_min == TimeToMinutes(f_cur.start)
           end_min == TimeToMinutes(f_cur.end)
           span == end_min - start_min
       IN  /\ f_hist' = [f_hist EXCEPT
                 !.anyFail = @ \/ resp = {},
                 !.allOver = @ /\ resp # {} /\ total > CAP,
                 !.overs = IF resp # {} /\ total > CAP THEN @ + 1 ELSE @,
                 !.dayTotal = IF f_cur.kind = "day" THEN resp ELSE @,
                 !.winTotal = IF f_cur.kind = "win" /\ f_cur.depth = 0
                              THEN resp ELSE @,
                 !.subAnswered = @ \/ (f_cur.depth > 0 /\ resp # {}),
                 !.deepest = Max(@, f_cur.depth),
                 !.lastLeaf = IF resp = {} THEN "fail"
                              ELSE IF total = 0 THEN "zero" ELSE @]
           /\ IF resp = {}
              THEN Return(ReturnedNone)
              ELSE IF total = 0
              THEN Return(Returned({}))
              ELSE IF over
              THEN IF f_cur.kind = "day"
                   THEN /\ f_pc' = "adaptive"
                        /\ f_cur' = WindowCall("win", <<0, 0>>, <<24, 0>>, 0)
                        /\ UNCHANGED <<f_stack, f_result>>
                   ELSE IF AtFloor(f_cur.depth, span)
                   THEN /\ f_cur' = [f_cur EXCEPT !.phase = "floor", !.total = total,
                                                  !.page = 1, !.repos = {}]
                        /\ UNCHANGED <<f_pc, f_stack, f_result>>
                   ELSE LET n == NSplits(total, span)
                            w == SubWindow(start_min, end_min, n, 0)
                        IN  /\ f_stack' = Append(f_stack,
                                   [start |-> f_cur.start, end |-> f_cur.end,
                                    depth |-> f_cur.depth, total |-> total,
                                    n |-> n, i |-> 0, all_repos |-> {}])
                            /\ f_cur' = WindowCall("win", w.start, w.end, f_cur.depth + 1)
                            /\ UNCHANGED <<f_pc, f_result>>
              ELSE /\ f_cur' = [f_cur EXCEPT !.phase = "pages", !.total = total,
                                             !.page = 1, !.repos = {}]
                   /\ UNCHANGED <<f_pc, f_stack, f_result>>
    /\ UNCHANGED f_remote
    /\ UNCHANGED <<transportVars, splitVars, crawlVars, mergeVars, saveVars, markerVars>>

\* One iteration of the pagination loop of _fetch_repos_for_window; after the
\* last page the window returns (repos, total_count).
PageRequest(resp) ==
    /\ f_pc \in {"day", "adaptive"}
    /\ f_cur.phase = "pages"
    /\ LET repos == IF resp = {} THEN f_cur.repos
                    ELSE f_cur.repos \cup (CHOOSE s \in resp : TRUE)
       IN  /\ f_hist' = [f_hist EXCEPT
                 !.anyFail = @ \/ resp = {},
                 !.lastLeaf = IF f_cur.page = PagesNeeded(f_cur.total) THEN "pages" ELSE @]
           /\ IF f_cur.page < PagesNeeded(f_cur.total)
              THEN /\ f_cur' = [f_cur EXCEPT !.page = @ + 1, !.repos = repos]
                   /\ UNCHANGED <<f_pc, f_stack, f_result>>
              ELSE Return(Returned(repos))
    /\ UNCHANGED f_remote
    /\ UNCHANGED <<transportVars, splitVars, crawlVars, mergeVars, saveVars, markerVars>>

\* One iteration of the best-effort scan `for page in range(1, 11)` at the
\* recursion floor: a failed request or an empty page breaks the loop.
FloorRequest(resp) ==
    /\ f_pc = "adaptive"
    /\ f_cur.phase = "floor"
    /\ LET items == IF resp = {} THEN {} ELSE CHOOSE s \in resp : TRUE
           repos == f_cur.repos \cup items
           stop == items = {} \/ f_cur.page = FLOOR_PAGES
       IN  /\ f_hist' = [f_hist EXCEPT
                 !.anyFail = @ \/ resp = {},
                 !.lastLeaf = IF stop THEN "floor" ELSE @]
           /\ IF stop
              THEN Return(Returned(repos))
              ELSE /\ f_cur' = [f_cur EXCEPT !.page = @ + 1, !.repos = repos]
                   /\ UNCHANGED <<f_pc, f_stack, f_result>>
    /\ UNCHANGED f_remote
    /\ UNCHANGED <<transportVars, splitVars, crawlVars, mergeVars, saveVars, markerVars>>

(***************************************************************************)
(* The split loop of _fetch_repos_adaptive, seen from one parent call      *)
(*                                                                         *)
(* Each of the n_splits recursive calls returns None or a set of names;    *)
(* the loop merges the sets into all_repos and returns it.                 *)
(***************************************************************************)
\* Bound of the merge model.
MaxSubCalls == 4        \* the largest n_splits of a modelled parent

\* What a recursive call of _fetch_repos_adaptive can return.
SubReturns == {ReturnedNone} \cup {Returned(s) : s \in SUBSET Ids}

InitMerge ==
    /\ m_pc = "loop"
    /\ m_n_splits \in 2..MaxSubCalls
    /\ m_i = 0
    /\ m_all_repos = {}
    /\ m_sub_repos = <<>>
    /\ m_result = {}

\* One iteration of `for i in range(n_splits)`: the recursive call returned
\* sub_repos; after the last iteration the parent returns all_repos.
MergeStep(sub_repos) ==
    /\ m_pc = "loop"
    /\ m_i < m_n_splits
    /\ m_all_repos' = MergeSub(m_all_repos, sub_repos)
    /\ m_sub_repos' = Append(m_sub_repos, sub_repos)
    /\ m_i' = m_i + 1
    /\ IF m_i + 1 = m_n_splits
       THEN m_pc' = "done" /\ m_result' = {MergeSub(m_all_repos, sub_repos)}
       ELSE UNCHANGED <<m_pc, m_result>>
    /\ UNCHANGED m_n_splits
    /\ UNCHANGED <<transportVars, splitVars, fetchVars, crawlVars, saveVars, markerVars>>

(***************************************************************************)
(* The crawl loops: initial_scrape.main and update_today.main              *)
(*                                                                         *)
(* Dates are day numbers; START_DATE is day 1.  A fetch is answered by {}  *)
(* (fetch_commit_count returned None) or {count}.                          *)
(***************************************************************************)
START_DATE == 1
CHECKPOINT_EVERY == 25
COOLDOWN_EVERY == 150
MAX_FAILED_RETRY == 10

\* Bound of the save model.
MaxSaveClock == 2       \* the last_updated stamps of the documents saved

\* Bounds of the crawl model.
MaxDay == 3             \* the last day the clock reaches
MaxCount == 1           \* the largest total_count the remote reports
MaxClock == 5           \* no run starts at or after this tick

Counts == 0..MaxCount
FetchAnswers == {{}} \cup {{c} : c \in Counts}

\* sorted(failed_dates)
\* The members of S between lo and hi in ascending order (halving keeps the
\* evaluation shallow for the long work lists of a first run).
RECURSIVE SortRange(_, _, _)
SortRange(S, lo, hi) ==
    IF lo > hi THEN <<>>
    ELSE IF lo = hi THEN (IF lo \in S THEN <<lo>> ELSE <<>>)
    ELSE LET mid == (lo + hi) \div 2
         IN  SortRange(S, lo, mid) \o SortRange(S, mid + 1, hi)

SortedSeq(S) ==
    IF S = {} THEN <<>>
    ELSE SortRange(S, CHOOSE x \in S : \A y \in S : x <= y,
                      CHOOSE x \in S : \A y \in S : x >= y)

SeqToSet(s) == {s[k] : k \in 1..Len(s)}

\* sum(data["contributions"].values())
RECURSIVE SumRange(_, _, _)
SumRange(contrib, lo, hi) ==
    IF lo > hi THEN 0
    ELSE IF lo = hi THEN (IF lo \in DOMAIN contrib THEN contrib[lo] ELSE 0)
    ELSE LET mid == (lo + hi) \div 2
         IN  SumRange(contrib, lo, mid) + SumRange(contrib, mid + 1, hi)

SumValues(contrib) ==
    LET D == DOMAIN contrib
    IN  IF D = {} THEN 0
        ELSE SumRange(contrib, CHOOSE x \in D : \A y \in D : x <= y,
                               CHOOSE x \in D : \A y \in D : x >= y)

EmptyContrib == [d \in {} |-> 0]

\* load_data: the file's document, or the initial structure when there is no file.
LoadData(disk) ==
    IF disk = {}
    THEN [last_updated |-> {}, total |-> 0, contributions |-> EmptyContrib,
          failed_dates |-> <<>>]
    ELSE CHOOSE doc \in disk : TRUE

\* save_data: stamps last_updated, recomputes the total, replaces the file.
SaveDataCountingDates(contrib, failed_list, now) ==
    {[last_updated |-> {now}, total |-> Cardinality(DOMAIN contrib),
      contributions |-> contrib, failed_dates |-> failed_list]}
SaveData(contrib, failed_list, now) ==
    {[last_updated |-> {now}, total |-> SumValues(contrib),
      contributions |-> contrib, failed_dates |-> failed_list]}

\* date_range(START_DATE, yesterday), filtered as in initial_scrape.main
GapDatesIgnoringFailed(contrib, failed, yesterday) ==
    {d \in START_DATE..yesterday : d \notin DOMAIN contrib}
GapDatesIgnoringContrib(contrib, failed, yesterday) ==
    {d \in START_DATE..yesterday : d \notin failed}
GapDates(contrib, failed, yesterday) ==
    {d \in START_DATE..yesterday : d \notin DOMAIN contrib /\ d \notin failed}

\* dates_to_fetch of initial_scrape.main
FullWorkListGapsOnly(contrib, failed, yesterday) ==
    SortedSeq(GapDates(contrib, failed, yesterday))
FullWorkList(contrib, failed, yesterday) ==
    SortedSeq(failed) \o SortedSeq(GapDates(contrib, failed, yesterday))

RECURSIVE AppendNew(_, _)
AppendNew(list, more) ==
    IF more = <<>> THEN list
    ELSE AppendNew(IF Head(more) \in SeqToSet(list) THEN list
                   ELSE Append(list, Head(more)),
                   Tail(more))

\* dates_to_fetch of update_today.main
LightWorkListNoCap(failed, yesterday, today) ==
    AppendNew(<<yesterday, today>>, SortedSeq(failed))
LightWorkList(failed, yesterday, today) ==
    LET sorted == SortedSeq(failed)
        retry_dates == SubSeq(sorted, 1, Min(Len(sorted), MAX_FAILED_RETRY))
    IN  AppendNew(<<yesterday, today>>, retry_dates)

\* contributions[date_str] = count
SetCount(contrib, d, c) ==
    [x \in DOMAIN contrib \cup {d} |-> IF x = d THEN c ELSE contrib[x]]

\* What a failed fetch does to contributions (nothing) and to failed_dates.
ContribAfterFailureZero(contrib, d) == SetCount(contrib, d, 0)
ContribAfterFailure(contrib, d) == contrib
FailedAfterFailure(failed, d) == failed \cup {d}
\* What a successful fetch does to failed_dates.
FailedAfterSuccess(failed, d) == failed \ {d}

\* if request_count > 0 and request_count % COOLDOWN_EVERY == 0
CooldownDueAtStart(request_count) == request_count % COOLDOWN_EVERY = 0
CooldownDue(request_count) ==
    request_count > 0 /\ request_count % COOLDOWN_EVERY = 0

\* if new_successes > 0 and new_successes % CHECKPOINT_EVERY == 0
CheckpointDueLate(new_successes) ==
    new_successes > CHECKPOINT_EVERY /\ new_successes % CHECKPOINT_EVERY = 0
CheckpointDue(new_successes) ==
    new_successes > 0 /\ new_successes % CHECKPOINT_EVERY = 0

NoRun ==
    [kind |-> "none", loaded_disk |-> {}, loaded_contrib |-> EmptyContrib,
     loaded_failed |-> {}, writes |-> 0, attempted |-> <<>>, results |-> <<>>,
     died_at |-> "none"]
NoCounters ==
    [request_count |-> 0, new_successes |-> 0, new_failures |-> 0,
     changed |-> FALSE, cooldowns |-> 0]

InitCrawl ==
    /\ c_pc = "idle"
    /\ c_today = 2
    /\ c_disk = {}
    /\ c_contrib = EmptyContrib
    /\ c_failed = {}
    /\ c_dates = <<>>
    /\ c_idx = 0
    /\ c_counters = NoCounters
    /\ c_last = [date |-> 0, outcome |-> {}]
    /\ c_run = NoRun
    /\ c_now = 0

\* Midnight UTC passes between two runs.
NewDay ==
    /\ c_pc = "idle"
    /\ c_today < MaxDay
    /\ c_today' = c_today + 1
    /\ UNCHANGED <<c_pc, c_disk, c_contrib, c_failed, c_dates, c_idx, c_counters,
                   c_last, c_run, c_now>>
    /\ UNCHANGED <<transportVars, splitVars, fetchVars, mergeVars, saveVars, markerVars>>

\* initial_scrape.main up to its loop: load, build the work list, and return
\* at once when the list is empty.
StartFull ==
    /\ c_pc = "idle"
    /\ c_now < MaxClock
    /\ LET data == LoadData(c_disk)
           failed == SeqToSet(data.failed_dates)
           list == FullWorkList(data.contributions, failed, c_today - 1)
       IN  /\ c_contrib' = data.contributions
           /\ c_failed' = failed
           /\ c_dates' = list
           /\ c_idx' = 1
           /\ c_pc' = IF list = <<>> THEN "idle" ELSE "full"
           /\ c_run' = [kind |-> "full", loaded_disk |-> c_disk,
                        loaded_contrib |-> data.contributions,
                        loaded_failed |-> failed, writes |-> 0,
                        attempted |-> <<>>, results |-> <<>>, died_at |-> "none"]
    /\ c_counters' = NoCounters
    /\ UNCHANGED <<c_today, c_disk, c_last, c_now>>
    /\ UNCHANGED <<transportVars, splitVars, fetchVars, mergeVars, saveVars, markerVars>>

\* One iteration of the loop of initial_scrape.main (cooldown, fetch, commit
\* or mark failed, checkpoint, sleep) and, after the last date, the final save.
FullStep(answer) ==
    /\ c_pc = "full"
    /\ c_idx <= Len(c_dates)
    /\ LET d == c_dates[c_idx]
           ok == answer # {}
           count == IF ok THEN CHOOSE c \in answer : TRUE ELSE 0
           cooled == CooldownDue(c_counters.request_count)
           contrib == IF ok THEN SetCount(c_contrib, d, count)
                      ELSE ContribAfterFailure(c_contrib, d)
           failed == IF ok THEN FailedAfterSuccess(c_failed, d)
                     ELSE FailedAfterFailure(c_failed, d)
           successes == c_counters.new_successes + (IF ok THEN 1 ELSE 0)
           checkpoint == CheckpointDue(successes)
           last == c_idx = Len(c_dates)
       IN  /\ c_last' = [date |-> d, outcome |-> answer]
           /\ c_contrib' = contrib
           /\ c_failed' = failed
           /\ c_counters' = [c_counters EXCEPT
                 !.request_count = @ + 1,
                 !.new_successes = successes,
                 !.new_failures = @ + (IF ok THEN 0 ELSE 1),
                 !.cooldowns = @ + (IF cooled THEN 1 ELSE 0)]
           /\ c_now' = c_now + 1
           /\ c_disk' = IF last THEN SaveData(contrib, SortedSeq(failed), c_now + 1)
                        ELSE IF checkpoint
                        THEN SaveData(contrib, SortedSeq(failed), c_now)
                        ELSE c_disk
           /\ c_run' = [c_run EXCEPT
                 !.writes = @ + (IF checkpoint THEN 1 ELSE 0) + (IF last THEN 1 ELSE 0),
                 !.attempted = Append(@, d),
                                     !.results = Append(@, answer)]
           /\ c_idx' = c_idx + 1
           /\ c_pc' = IF last THEN "idle" ELSE "full"
    /\ UNCHANGED <<c_today, c_dates>>
    /\ UNCHANGED <<transportVars, splitVars, fetchVars, mergeVars, saveVars, markerVars>>

\* update_today.main up to its loop.
StartLight ==
    /\ c_pc = "idle"
    /\ c_now < MaxClock
    /\ LET data == LoadData(c_disk)
           failed == SeqToSet(data.failed_dates)
       IN  /\ c_contrib' = data.contributions
           /\ c_failed' = failed
           /\ c_dates' = LightWorkList(failed, c_today - 1, c_today)
           /\ c_run' = [kind |-> "light", loaded_disk |-> c_disk,
                        loaded_contrib |-> data.contributions,
                        loaded_failed |-> failed, writes |-> 0,
                        attempted |-> <<>>, results |-> <<>>, died_at |-> "none"]
    /\ c_idx' = 1
    /\ c_pc' = "light"
    /\ c_counters' = NoCounters
    /\ UNCHANGED <<c_today, c_disk, c_last, c_now>>
    /\ UNCHANGED <<transportVars, splitVars, fetchVars, mergeVars, saveVars, markerVars>>

\* if old_val != count (old_val is None for a date without an entry)
CountChangedIfPresent(old_val, count) == old_val # {} /\ old_val # {count}
CountChanged(old_val, count) == old_val # {count}

\* `changed` after a failed fetch of date d: the code sets it unconditionally.
ChangedAfterFailure(changed, failed, d) == TRUE

\* One iteration of the loop of update_today.main and, after the last date,
\* the comparison of the failed sets and the conditional save.
LightStep(answer) ==
    /\ c_pc = "light"
    /\ c_idx <= Len(c_dates)
    /\ LET d == c_dates[c_idx]
           ok == answer # {}
           count == IF ok THEN CHOOSE c \in answer : TRUE ELSE 0
           old_val == IF d \in DOMAIN c_contrib THEN {c_contrib[d]} ELSE {}
           contrib == IF ok THEN SetCount(c_contrib, d, count)
                      ELSE ContribAfterFailure(c_contrib, d)
           failed == IF ok THEN FailedAfterSuccess(c_failed, d)
                     ELSE FailedAfterFailure(c_failed, d)
           changed1 == IF ok THEN c_counters.changed \/ CountChanged(old_val, count)
                       ELSE ChangedAfterFailure(c_counters.changed, c_failed, d)
           last == c_idx = Len(c_dates)
           changed == IF last THEN changed1 \/ failed # c_run.loaded_failed
                      ELSE changed1
           save == last /\ changed
       IN  /\ c_last' = [date |-> d, outcome |-> answer]
           /\ c_contrib' = contrib
           /\ c_failed' = failed
           /\ c_counters' = [c_counters EXCEPT !.changed = changed]
           /\ c_now' = c_now + 1
           /\ c_disk' = IF save THEN SaveData(contrib, SortedSeq(failed), c_now + 1)
                        ELSE c_disk
           /\ c_run' = [c_run EXCEPT !.writes = @ + (IF save THEN 1 ELSE 0),
                                     !.attempted = Append(@, d),
                                     !.results = Append(@, answer)]
           /\ c_idx' = c_idx + 1
           /\ c_pc' = IF last THEN "idle" ELSE "light"
    /\ UNCHANGED <<c_today, c_dates>>
    /\ UNCHANGED <<transportVars, splitVars, fetchVars, mergeVars, saveVars, markerVars>>

(***************************************************************************)
(* save_data (github_api, initial_scrape, update_today) and save_state     *)
(* (update_doc_markers), step by step                                      *)
(*                                                                         *)
(* The temporary file is [doc, progress]: json.dump has written nothing    *)
(* ("none"), a part ("part") or all ("all") of doc into it.                *)
(***************************************************************************)
SaveVariants == {"save_data", "save_state"}

\* What a file holds when json.dump has got as far as `progress` with doc:
\* the document, or a prefix of its text that does not parse.
Written(doc, progress) ==
    IF progress = "all" THEN doc ELSE [prefix_of |-> doc, upto |-> progress]

\* The file is replaced after the `with` block that writes it has closed.
CanReplaceEarly(progress) == TRUE
CanReplace(progress) == progress = "all"

\* The destination of a variant: DATA_FILE for save_data, OUT_FILE for save_state.
DestOf(variant) == IF variant = "save_state" THEN s_out ELSE c_disk

\* save_state's data["last_updated"] = _now_utc(); the rest of the state of
\* update_doc_markers is the set of repositories seen.
SaveState(repos, now) == {[last_updated |-> {now}, repo_first_seen |-> repos]}

\* The call up to the creation of the temporary file: mkstemp in save_data,
\* open(tmp, "w") on the fixed name in save_state.  doc is {the document},
\* stamped (and, in save_data, with the total recomputed).
SaveOpen(variant, doc) ==
    /\ s_pc # "saving"
    /\ s_pc' = "saving"
    /\ s_variant' = variant
    /\ s_doc' = doc
    /\ s_old' = DestOf(variant)
    /\ s_tmp' = {[doc |-> CHOOSE d \in doc : TRUE, progress |-> "none"]}
    /\ UNCHANGED <<s_out, c_disk>>

\* json.dump(data, f, indent=2); f.write("\n"): the text reaches the file in
\* two parts.
SaveWrite ==
    /\ s_pc = "saving"
    /\ \E t \in s_tmp :
          /\ t.progress # "all"
          /\ s_tmp' = {[t EXCEPT !.progress = IF @ = "none" THEN "part" ELSE "all"]}
    /\ UNCHANGED <<s_pc, s_variant, s_doc, s_old, s_out, c_disk>>

\* os.replace(tmp_path, DATA_FILE) / tmp.replace(OUT_FILE), and the return.
SaveReplace ==
    /\ s_pc = "saving"
    /\ \E t \in s_tmp :
          /\ CanReplace(t.progress)
          /\ IF s_variant = "save_state"
             THEN s_out' = {Written(t.doc, t.progress)} /\ UNCHANGED c_disk
             ELSE c_disk' = {Written(t.doc, t.progress)} /\ UNCHANGED s_out
    /\ s_tmp' = {}
    /\ s_pc' = "returned"
    /\ UNCHANGED <<s_variant, s_doc, s_old>>

\* An Exception while writing or replacing (OSError: disk full, permission):
\* save_data unlinks the temporary file and re-raises; save_state has no
\* handler, the exception leaves it with the temporary file as it is.
SaveFails ==
    /\ s_pc = "saving"
    /\ s_pc' = "raised"
    /\ s_tmp' = IF s_variant = "save_data" THEN {} ELSE s_tmp
    /\ UNCHANGED <<s_variant, s_doc, s_old, s_out, c_disk>>

\* The process dies inside the call (kill, power loss, or a
\* KeyboardInterrupt, which `except Exception` does not catch).
SaveDies ==
    /\ s_pc = "saving"
    /\ s_pc' = "dead"
    /\ UNCHANGED <<s_variant, s_doc, s_tmp, s_old, s_out, c_disk>>

\* The documents saved in SpecSave.
SaveContribs == {EmptyContrib, SetCount(EmptyContrib, 1, 0), SetCount(EmptyContrib, 1, 1)}
SaveDocs(variant) ==
    IF variant = "save_state"
    THEN {SaveState(r, now) : r \in SUBSET Ids, now \in 1..MaxSaveClock}
    ELSE {SaveData(c, f, now) :
             c \in SaveContribs, f \in {<<>>, <<2>>}, now \in 1..MaxSaveClock}

\* A step of save_data or save_state changes nothing but the files.
SaveFrame ==
    /\ UNCHANGED crawlMemVars
    /\ UNCHANGED <<transportVars, splitVars, fetchVars, mergeVars, markerVars>>

\* A call of save_data or save_state from outside the crawl model.
SaveCall(variant, doc) == SaveOpen(variant, doc) /\ SaveFrame

(***************************************************************************)
(* initial_scrape.main with its points of death                            *)
(*                                                                         *)
(* The loop of FullStep, cut where the process can be killed or            *)
(* interrupted: after a date is committed in memory (c_pc = "checkpoint"   *)
(* when a checkpoint is due, "final" after the loop) and inside save_data. *)
(***************************************************************************)
\* Bound of the checkpoint model.
MaxFailures == 1        \* at most this many fetches of a run fail

\* today, late enough for a run to reach two checkpoints
CheckpointDay == 2 * CHECKPOINT_EVERY + 2

\* The file before the run: none, or the file a run on day 3 left when date 1
\* had no commits and date 2 failed.
CheckpointDisks == {{}, SaveData(SetCount(EmptyContrib, 1, 0), <<2>>, 0)}

\* The remote of SpecCheckpoint: every date has one commit, or the fetch fails.
CheckpointAnswers ==
    {{1}} \cup (IF c_counters.new_failures < MaxFailures THEN {{}} ELSE {})

InitCheckpoint ==
    /\ c_pc = "idle"
    /\ c_today = CheckpointDay
    /\ c_disk \in CheckpointDisks
    /\ c_contrib = EmptyContrib
    /\ c_failed = {}
    /\ c_dates = <<>>
    /\ c_idx = 0
    /\ c_counters = NoCounters
    /\ c_last = [date |-> 0, outcome |-> {}]
    /\ c_run = NoRun
    /\ c_now = 0

\* One iteration of the loop up to the checkpoint test: cooldown, fetch,
\* commit or mark failed; when no checkpoint is due, also the sleep.
FullFetch(answer) ==
    /\ c_pc = "full"
    /\ c_idx <= Len(c_dates)
    /\ LET d == c_dates[c_idx]
           ok == answer # {}
           count == IF ok THEN CHOOSE c \in answer : TRUE ELSE 0
           cooled == CooldownDue(c_counters.request_count)
           successes == c_counters.new_successes + (IF ok THEN 1 ELSE 0)
           checkpoint == CheckpointDue(successes)
           last == c_idx = Len(c_dates)
       IN  /\ c_last' = [date |-> d, outcome |-> answer]
           /\ c_contrib' = IF ok THEN SetCount(c_contrib, d, count)
                           ELSE ContribAfterFailure(c_contrib, d)
           /\ c_failed' = IF ok THEN FailedAfterSuccess(c_failed, d)
                          ELSE FailedAfterFailure(c_failed, d)
           /\ c_counters' = [c_counters EXCEPT
                 !.request_count = @ + 1,
                 !.new_successes = successes,
                 !.new_failures = @ + (IF ok THEN 0 ELSE 1),
                 !.cooldowns = @ + (IF cooled THEN 1 ELSE 0)]
           /\ c_now' = IF checkpoint THEN c_now ELSE c_now + 1
           /\ c_run' = [c_run EXCEPT !.attempted = Append(@, d),
                                     !.results = Append(@, answer)]
           /\ c_idx' = c_idx + 1
           /\ c_pc' = IF checkpoint THEN "checkpoint"
                      ELSE IF last THEN "final" ELSE "full"
    /\ UNCHANGED <<c_today, c_dates, c_disk>>
    /\ UNCHANGED <<transportVars, splitVars, fetchVars, mergeVars, saveVars, markerVars>>

\* data["failed_dates"] = sorted(failed_dates); save_data(data), up to the
\* creation of the temporary file.
FullSaveCall ==
    /\ c_pc \in {"checkpoint", "final"}
    /\ s_pc = "idle"
    /\ SaveOpen("save_data", SaveData(c_contrib, SortedSeq(c_failed), c_now))
    /\ SaveFrame

\* save_data returned: after a checkpoint the iteration ends with its sleep
\* and the loop goes on, or is over; after the final save main returns.
FullSaved ==
    /\ c_pc \in {"checkpoint", "final"}
    /\ s_pc = "returned"
    /\ s_pc' = "idle"
    /\ c_run' = [c_run EXCEPT !.writes = @ + 1]
    /\ c_pc' = IF c_pc = "final" THEN "idle"
               ELSE IF c_idx > Len(c_dates) THEN "final" ELSE "full"
    /\ c_now' = IF c_pc = "final" THEN c_now ELSE c_now + 1
    /\ UNCHANGED <<c_today, c_disk, c_contrib, c_failed, c_dates, c_idx,
                   c_counters, c_last>>
    /\ UNCHANGED <<s_variant, s_doc, s_tmp, s_old, s_out>>
    /\ UNCHANGED <<transportVars, splitVars, fetchVars, mergeVars, markerVars>>

\* The process ends where it stands; what it held in memory is kept in the
\* c_ variables as a record of what was lost.
Dies(how) ==
    /\ c_pc \in {"full", "checkpoint", "final"}
    /\ c_pc' = how
    /\ c_run' = [c_run EXCEPT !.died_at = c_pc]
    /\ s_pc' = IF s_pc = "saving" THEN "dead" ELSE s_pc
    /\ UNCHANGED <<c_today, c_disk, c_contrib, c_failed, c_dates, c_idx,
                   c_counters, c_last, c_now>>
    /\ UNCHANGED <<s_variant, s_doc, s_tmp, s_old, s_out>>
    /\ UNCHANGED <<transportVars, splitVars, fetchVars, mergeVars, markerVars>>

\* SIGKILL, power loss.
Kill == Dies("killed")

\* KeyboardInterrupt: main has no handler for it and save_data's
\* `except Exception` does not catch it, so it propagates and the process exits.
Interrupt == Dies("interrupted")

(***************************************************************************)
(* initial_scrape.main over enough dates for two cooldowns                 *)
(***************************************************************************)
\* The remote of SpecCooldown: every date has one commit; the first fetch
\* and the fetches on either side of a cooldown may fail.
CooldownAnswers ==
    {{1}} \cup (IF c_idx = 1 \/ c_idx % COOLDOWN_EVERY \in {0, 1} THEN {{}} ELSE {})

InitCooldown ==
    /\ c_pc = "idle"
    \* the work list of a first run has 150, 151, 300 or 301 dates
    /\ c_today \in {k * COOLDOWN_EVERY + START_DATE + j : k \in 1..2, j \in 0..1}
    /\ c_disk = {}
    /\ c_contrib = EmptyContrib
    /\ c_failed = {}
    /\ c_dates = <<>>
    /\ c_idx = 0
    /\ c_counters = NoCounters
    /\ c_last = [date |-> 0, outcome |-> {}]
    /\ c_run = NoRun
    /\ c_now = 0

(***************************************************************************)
(* update_today.main over a file with more failed dates than it retries    *)
(***************************************************************************)
LightToday == MAX_FAILED_RETRY + 4

\* The files an earlier run wrote: every date up to today has the count 1;
\* failed_dates has 7 to 14 dates, with and without yesterday and today.
LightDisks ==
    {SaveData([d \in 1..LightToday |-> 1], SortedSeq(lo..hi), 0) :
        lo \in {1, 4}, hi \in MAX_FAILED_RETRY..LightToday}

\* The remote of SpecLight: the fetch fails or reports no commit.
LightAnswers == {{}, {0}}

InitLight ==
    /\ c_pc = "idle"
    /\ c_today = LightToday
    /\ c_disk \in LightDisks
    /\ c_contrib = EmptyContrib
    /\ c_failed = {}
    /\ c_dates = <<>>
    /\ c_idx = 0
    /\ c_counters = NoCounters
    /\ c_last = [date |-> 0, outcome |-> {}]
    /\ c_run = NoRun
    /\ c_now = 0

(***************************************************************************)
(* update_doc_markers.main and process_marker                              *)
(*                                                                         *)
(* The state dict is modelled by its series, totals, repo_first_seen and   *)
(* failed_repos (last_updated, metadata and progress are left out: no      *)
(* aggregate is computed from them).  Repositories are numbered in the     *)
(* order of the sorted candidate list; first-seen dates are day numbers.   *)
(***************************************************************************)
MARKERS == {"claude", "gemini", "agents"}
CHECKPOINT_EVERY_MARKERS == 25      \* CHECKPOINT_EVERY of update_doc_markers
MaxRuns == 2                        \* runs of update_doc_markers.main

\* d[k] = v
DictSet(d, k, v) == [x \in DOMAIN d \cup {k} |-> IF x = k THEN v ELSE d[x]]

EmptyState ==
    [series |-> <<>>,
     totals |-> <<>>,
     repo_first_seen |-> [m \in MARKERS |-> <<>>],
     failed_repos |-> [m \in MARKERS |-> <<>>]]

\* load_state: the file's document (its data_version is the current one and
\* it has every key, being written by this program), or the empty state.
LoadState(file) == IF file = {} THEN EmptyState ELSE CHOOSE doc \in file : TRUE

\* build_daily_counts
BuildDailyCounts(repo_first_seen) ==
    [d \in {repo_first_seen[r] : r \in DOMAIN repo_first_seen} |->
        Cardinality({r \in DOMAIN repo_first_seen : repo_first_seen[r] = d})]

\* state["failed_repos"][m] = sorted(failed); state["series"][m] =
\* build_daily_counts(repo_first_seen); state["totals"][m] = len(repo_first_seen)
Refresh(state, m, failed) ==
    [state EXCEPT !.failed_repos[m] = SortedSeq(failed),
                  !.series = DictSet(@, m, BuildDailyCounts(state.repo_first_seen[m])),
                  !.totals = DictSet(@, m, Cardinality(DOMAIN state.repo_first_seen[m]))]

\* if processed > 0 and processed % CHECKPOINT_EVERY == 0
CheckpointDueMarkers(processed) ==
    processed > 0 /\ processed % CHECKPOINT_EVERY_MARKERS = 0

\* --markers: the selections of the runs
SelectedLists == {<<"claude">>, <<"claude", "gemini">>}

\* What the candidate search returns: 2 repositories, or one more than a
\* checkpoint takes.
CandidateCounts == {2, CHECKPOINT_EVERY_MARKERS + 1}

\* What root_file_exists and first_commit_date_for_path give for the
\* candidate at hand: {} (no root file, or no first commit date) or {date}.
\* Every repository was first seen on day 1, except that the first one and
\* the one a checkpoint may fall on can also fail or date from day 2.
MarkerAnswers ==
    {{1}} \cup (IF k_i \in {1, CHECKPOINT_EVERY_MARKERS} THEN {{}, {2}} ELSE {})

IdleMarkers ==
    /\ k_pc = "idle"
    /\ k_file = {}
    /\ k_state = EmptyState
    /\ k_sel = <<>>
    /\ k_m = 0
    /\ k_cands = 0
    /\ k_i = 0
    /\ k_failed = {}
    /\ k_processed = 0
    /\ k_saves = [runs |-> 0, last |-> "none"]

\* main up to the first repository of the first marker: load_state, the
\* start-of-run save_state, and the head of process_marker.
MarkersStart(selected_markers, n) ==
    /\ k_pc \in {"idle", "done", "interrupted"}
    /\ k_saves.runs < MaxRuns
    /\ LET state == LoadState(k_file)
       IN  /\ k_state' = state
           /\ k_file' = {state}
           /\ k_failed' = SeqToSet(state.failed_repos[selected_markers[1]])
    /\ k_sel' = selected_markers
    /\ k_m' = 1
    /\ k_cands' = n
    /\ k_i' = 1
    /\ k_processed' = 0
    /\ k_pc' = "marker"
    /\ k_saves' = [runs |-> k_saves.runs + 1, last |-> "start"]
    /\ UNCHANGED <<transportVars, splitVars, fetchVars, crawlVars, mergeVars, saveVars>>

\* One iteration of the loop of process_marker over the candidates, its
\* checkpoint included.
ProcessRepo(answer) ==
    /\ k_pc = "marker"
    /\ k_i <= k_cands
    /\ LET m == k_sel[k_m]
           repo == k_i
           repo_first_seen == k_state.repo_first_seen[m]
       IN  IF repo \in DOMAIN repo_first_seen \/ repo \in k_failed
           THEN UNCHANGED <<k_state, k_file, k_failed, k_processed, k_saves>>
           ELSE IF answer = {}
           THEN /\ k_failed' = k_failed \cup {repo}
                /\ UNCHANGED <<k_state, k_file, k_processed, k_saves>>
           ELSE LET first_seen == CHOOSE d \in answer : TRUE
                    found == [k_state EXCEPT !.repo_first_seen[m] =
                                                 DictSet(@, repo, first_seen)]
                    processed == k_processed + 1
                IN  /\ k_processed' = processed
                    /\ k_failed' = k_failed
                    /\ IF CheckpointDueMarkers(processed)
                       THEN /\ k_state' = Refresh(found, m, k_failed)
                            /\ k_file' = {Refresh(found, m, k_failed)}
                            /\ k_saves' = [k_saves EXCEPT !.last = "checkpoint"]
                       ELSE /\ k_state' = found
                            /\ UNCHANGED <<k_file, k_saves>>
    /\ k_i' = k_i + 1
    /\ UNCHANGED <<k_pc, k_sel, k_m, k_cands>>
    /\ UNCHANGED <<transportVars, splitVars, fetchVars, crawlVars, mergeVars, saveVars>>

\* The end of process_marker, the save_state of main that follows it, and
\* either the head of process_marker for the next marker or the end of main.
FinishMarker ==
    /\ k_pc = "marker"
    /\ k_i > k_cands
    /\ LET state == Refresh(k_state, k_sel[k_m], k_failed)
       IN  /\ k_state' = state
           /\ k_file' = {state}
           /\ IF k_m < Len(k_sel)
              THEN /\ k_m' = k_m + 1
                   /\ k_i' = 1
                   /\ k_failed' = SeqToSet(state.failed_repos[k_sel[k_m + 1]])
                   /\ k_processed' = 0
                   /\ k_pc' = "marker"
              ELSE /\ k_pc' = "done"
                   /\ UNCHANGED <<k_m, k_i, k_failed, k_processed>>
    /\ k_saves' = [k_saves EXCEPT !.last = "marker"]
    /\ UNCHANGED <<k_sel, k_cands>>
    /\ UNCHANGED <<transportVars, splitVars, fetchVars, crawlVars, mergeVars, saveVars>>

\* except KeyboardInterrupt: save_state(state); raise.  The interrupt arrives
\* between two iterations of process_marker.
InterruptMarkers ==
    /\ k_pc = "marker"
    /\ k_file' = {k_state}
    /\ k_pc' = "interrupted"
    /\ k_saves' = [k_saves EXCEPT !.last = "interrupt"]
    /\ UNCHANGED <<k_state, k_sel, k_m, k_cands, k_i, k_failed, k_processed>>
    /\ UNCHANGED <<transportVars, splitVars, fetchVars, crawlVars, mergeVars, saveVars>>

(***************************************************************************)
(* Specifications                                                          *)
(***************************************************************************)
IdleTransport ==
    /\ t_pc = "idle"
    /\ t_variant = "api"
    /\ t_url = "u1"
    /\ t_attempt = 0
    /\ t_now = 0
    /\ t_log = <<>>
    /\ t_result = Pending

IdleSplit ==
    /\ sp_start = 0
    /\ sp_end = 0
    /\ sp_total = 0
    /\ sp_i = 0
    /\ sp_subs = <<>>

IdleSave ==
    /\ s_pc = "idle"
    /\ s_variant = "save_data"
    /\ s_doc = {}
    /\ s_tmp = {}
    /\ s_old = {}
    /\ s_out = {}

IdleMerge ==
    /\ m_pc = "idle"
    /\ m_n_splits = 0
    /\ m_i = 0
    /\ m_all_repos = {}
    /\ m_sub_repos = <<>>
    /\ m_result = {}

IdleFetch ==
    /\ f_pc = "idle"
    /\ f_remote = {}
    /\ f_cur = NoCur
    /\ f_stack = <<>>
    /\ f_result = PendingResult
    /\ f_hist = [anyFail |-> FALSE, allOver |-> TRUE, overs |-> 0,
                 dayTotal |-> {}, lastLeaf |-> "none", deepest |-> 0,
                 winTotal |-> {}, subAnswered |-> FALSE]

\* The answers the remote may give to a page-size-1 request in SpecAdaptive.
FreeFirstAnswers ==
    {{}} \cup {{t} : t \in {x \in FreeTotals : x > CAP => f_hist.overs < MaxOver}}
\* The commits the remote lists on page `page` (per_page=100) of a query that
\* matches total_count commits.
ItemsOnPage(total_count, page) ==
    Max(0, Min(PAGE_SIZE, total_count - PAGE_SIZE * (page - 1)))
\* The answers to a page-size-1 request in SpecWindow: only the whole-day
\* query may report more than CAP.
WindowFirstAnswers ==
    {{}} \cup {{t} : t \in {x \in WindowTotals : x > CAP => f_cur.kind = "day"}}
\* The answers to a page request: a failure, or the repository names of the
\* commits on that page, which are at most as many as the commits.
PageAnswers ==
    {{}} \cup {{s} : s \in {x \in SUBSET Ids :
                               Cardinality(x) <= ItemsOnPage(f_cur.total, f_cur.page)}}

InitTransport == IdleTransport /\ IdleSplit /\ IdleFetch /\ InitCrawl /\ IdleMerge /\ IdleSave /\ IdleMarkers
NextTransport ==
    \/ ApiCall
    \/ \E o \in Outcomes(t_now) : ApiAttempt(o)
SpecTransport == InitTransport /\ [][NextTransport]_vars

NextBackoff ==
    \/ ApiCall
    \/ \E o \in BackoffOutcomes(t_now) : ApiAttempt(o)
    \/ ApiGetJsonCall
    \/ \E o \in BackoffOutcomes(t_now) : ApiGetJson(o)
SpecBackoff == InitTransport /\ [][NextBackoff]_vars

InitSplitSpec == IdleTransport /\ InitSplit /\ IdleFetch /\ InitCrawl /\ IdleMerge /\ IdleSave /\ IdleMarkers
NextSplit == SplitStep
SpecSplit == InitSplitSpec /\ [][NextSplit]_vars

InitFetch == IdleTransport /\ IdleSplit /\ IdleFetch /\ InitCrawl /\ IdleMerge /\ IdleSave /\ IdleMarkers
NextAdaptive ==
    \/ FetchStart({})
    \/ \E r \in FreeFirstAnswers : FirstRequest(r)
    \/ \E r \in PageAnswers : PageRequest(r)
SpecAdaptive == InitFetch /\ [][NextAdaptive]_vars

NextWindow ==
    \/ FetchStart({})
    \/ \E r \in WindowFirstAnswers : FirstRequest(r)
    \/ \E r \in PageAnswers : PageRequest(r)
SpecWindow == InitFetch /\ [][NextWindow]_vars

NextFloor ==
    \/ \E r \in SynthRemotes : FetchStart({r})
    \/ \E r \in f_remote : FirstRequest({r.total})
    \/ \E r \in f_remote : FloorRequest(r.page)
SpecFloor == InitFetch /\ [][NextFloor]_vars
\* The process is sequential and every request returns (the transport gives up
\* after MAX_RETRIES attempts), so a call that can take a step takes it.
SpecFloorFair == SpecFloor /\ WF_vars(NextFloor)

InitCrawlSpec == IdleTransport /\ IdleSplit /\ IdleFetch /\ InitCrawl /\ IdleMerge /\ IdleSave /\ IdleMarkers
NextCrawl ==
    \/ NewDay
    \/ StartFull
    \/ StartLight
    \/ \E a \in FetchAnswers : FullStep(a)
    \/ \E a \in FetchAnswers : LightStep(a)
SpecCrawl == InitCrawlSpec /\ [][NextCrawl]_vars

InitMergeSpec == IdleTransport /\ IdleSplit /\ IdleFetch /\ InitCrawl /\ InitMerge /\ IdleSave /\ IdleMarkers
NextMerge == \E v \in SubReturns : MergeStep(v)
SpecMerge == InitMergeSpec /\ [][NextMerge]_vars

InitSaveSpec == IdleTransport /\ IdleSplit /\ IdleFetch /\ InitCrawl /\ IdleMerge /\ IdleSave /\ IdleMarkers
NextSave ==
    \/ \E v \in SaveVariants : \E doc \in SaveDocs(v) : SaveCall(v, doc)
    \/ SaveWrite /\ SaveFrame
    \/ SaveReplace /\ SaveFrame
    \/ SaveFails /\ SaveFrame
    \/ SaveDies /\ SaveFrame
SpecSave == InitSaveSpec /\ [][NextSave]_vars

InitCheckpointSpec ==
    IdleTransport /\ IdleSplit /\ IdleFetch /\ InitCheckpoint /\ IdleMerge /\ IdleSave /\ IdleMarkers
NextCheckpoint ==
    \/ StartFull
    \/ \E a \in CheckpointAnswers : FullFetch(a)
    \/ FullSaveCall
    \/ SaveWrite /\ SaveFrame
    \/ SaveReplace /\ SaveFrame
    \/ FullSaved
    \/ Kill
    \/ Interrupt
SpecCheckpoint == InitCheckpointSpec /\ [][NextCheckpoint]_vars

InitCooldownSpec ==
    IdleTransport /\ IdleSplit /\ IdleFetch /\ InitCooldown /\ IdleMerge /\ IdleSave /\ IdleMarkers
NextCooldown ==
    \/ StartFull
    \/ \E a \in CooldownAnswers : FullStep(a)
SpecCooldown == InitCooldownSpec /\ [][NextCooldown]_vars

NextMarkers ==
    \/ \E sel \in SelectedLists, n \in CandidateCounts : MarkersStart(sel, n)
    \/ \E a \in MarkerAnswers : ProcessRepo(a)
    \/ FinishMarker
    \/ InterruptMarkers
SpecMarkers == InitTransport /\ [][NextMarkers]_vars

InitLightSpec ==
    IdleTransport /\ IdleSplit /\ IdleFetch /\ InitLight /\ IdleMerge /\ IdleSave /\ IdleMarkers
NextLight ==
    \/ StartLight
    \/ \E a \in LightAnswers : LightStep(a)
SpecLight == InitLightSpec /\ [][NextLight]_vars

(***************************************************************************)
(* Properties                                                              *)
(***************************************************************************)

\* C1: every file written holds only counts >= 0, and no date is at once a
\* key of contributions and a member of failed_dates.
C1_DiskDisjoint ==
    \A doc \in c_disk :
        /\ \A d \in DOMAIN doc.contributions : doc.contributions[d] >= 0
        /\ DOMAIN doc.contributions \cap SeqToSet(doc.failed_dates) = {}

\* C2: a lightweight run that ends with the counts and the failed set it
\* loaded has not called save_data: the file is the one it loaded.
C2_NoWriteWhenUnchanged ==
    (/\ c_pc = "idle"
     /\ c_run.kind = "light"
     /\ c_contrib = c_run.loaded_contrib
     /\ c_failed = c_run.loaded_failed)
    => (c_run.writes = 0 /\ c_disk = c_run.loaded_disk)

\* C3: one transport call issues at most MAX_RETRIES requests, each retryable
\* outcome uses up exactly one attempt, the loop runs only while attempts are
\* left, and a call whose attempts all ended retryably returned None.
C3_BoundedRetries ==
    /\ Len(t_log) <= MAX_RETRIES
    /\ \A k \in 1..Len(t_log) : t_log[k].attempt = k - 1
    /\ t_attempt = Cardinality({k \in 1..Len(t_log) : Retryable(t_log[k].outcome)})
    /\ t_pc = "running" => t_attempt < MAX_RETRIES /\ t_attempt = Len(t_log)
    /\ (t_pc = "done" /\ \A k \in 1..Len(t_log) : Retryable(t_log[k].outcome))
          => (t_result = ReturnNone /\ Len(t_log) = MAX_RETRIES)

C3_Witness ==
    /\ t_pc = "done"
    /\ Len(t_log) = MAX_RETRIES
    /\ t_log[1].outcome.status = 403
    /\ t_log[2].outcome.status = 429
    /\ t_log[3].outcome.status = 0
    /\ t_result = ReturnNone

\* C4: a step of either crawl loop on date d either commits the fetched count
\* for d and takes d out of failed_dates, or (the fetch returned None) puts d
\* into failed_dates and leaves contributions as it was; nothing else changes.
C4_PerDateTransition ==
    [][(c_pc \in {"full", "light"} /\ c_idx' = c_idx + 1) =>
         LET d == c_dates[c_idx]
         IN  /\ c_last'.date = d
             /\ c_last'.outcome # {} =>
                   /\ DOMAIN c_contrib' = DOMAIN c_contrib \cup {d}
                   /\ {c_contrib'[d]} = c_last'.outcome
                   /\ \A x \in DOMAIN c_contrib \ {d} : c_contrib'[x] = c_contrib[x]
                   /\ c_failed' = c_failed \ {d}
             /\ c_last'.outcome = {} =>
                   /\ c_contrib' = c_contrib
                   /\ c_failed' = c_failed \cup {d}]_vars

C4_Witness ==
    /\ c_pc \in {"full", "light"}
    /\ c_last.outcome = {}
    /\ c_last.date \in c_failed
    /\ c_last.date \notin DOMAIN c_contrib
    /\ DOMAIN c_contrib # {}

\* C5: fetch_unique_repo_count returns 0 only when no request of the call
\* returned None.
C5_ZeroNeverFromFailure ==
    (f_pc = "done" /\ f_result = CountResult(0)) => ~f_hist.anyFail

\* C6: a 403 with a reset header on an attempt that is not the last sleeps
\* max(reset - now, 1) + 1 seconds (11 for a reset 10 seconds ahead), the next
\* attempt goes to the same URL after that sleep, and if it answers 2xx the
\* call returns what the body holds.
C6_RateLimitRetry ==
    \A k \in 1..Len(t_log) :
        LET e == t_log[k]
        IN  (e.outcome.status = 403 /\ e.outcome.reset # {} /\ e.attempt + 1 < MAX_RETRIES) =>
              LET reset == CHOOSE r \in e.outcome.reset : TRUE
                  wait == IF reset - e.at >= 1 THEN reset - e.at ELSE 1
              IN  /\ e.slept = {wait + 1}
                  /\ reset - e.at = 10 => e.slept = {11}
                  /\ k = Len(t_log) => t_pc = "running"
                  /\ k < Len(t_log) =>
                        /\ t_log[k + 1].url = e.url
                        /\ t_log[k + 1].at = e.at + wait + 1
                        /\ t_log[k + 1].outcome.status = 200 =>
                              /\ k + 1 = Len(t_log)
                              /\ t_pc = "done"
                              /\ t_result.kind = (IF t_variant = "api" THEN "body" ELSE "count")
                              /\ t_log[k + 1].outcome.body.total_count # {} =>
                                    t_result.val = t_log[k + 1].outcome.body.total_count

C6_Witness ==
    /\ t_pc = "done"
    /\ Len(t_log) = 2
    /\ t_log[1].outcome.status = 403
    /\ t_log[1].outcome.reset = {t_log[1].at + 10}
    /\ t_log[1].slept = {11}
    /\ t_log[2].outcome.status = 200
    /\ t_log[2].url = t_log[1].url
    /\ t_result = [kind |-> "body", val |-> {5}]

\* C7: an HTTP error status other than 403, 429 and 5xx ends the call at once:
\* it is the last attempt of the call, nothing slept, and the call returned None.
C7_FatalStatus ==
    \A k \in 1..Len(t_log) :
        LET st == t_log[k].outcome.status
        IN  (st \notin {0, 200, 403, 429} /\ st < 500) =>
               /\ k = Len(t_log)
               /\ t_log[k].slept = {}
               /\ t_pc = "done"
               /\ t_result = ReturnNone

C7_Witness ==
    /\ t_pc = "done"
    /\ Len(t_log) = 2
    /\ t_log[1].outcome.status = 503
    /\ t_log[2].outcome.status = 404
    /\ t_log[2].slept = {}
    /\ t_result = ReturnNone

\* C8: the sub-windows generated by a split tile the parent window: the first
\* starts at start_min, each one ends where the next starts, and the last one
\* ends at end_min.
C8_Tiling ==
    LET mins(t) == t[1] * 60 + t[2]
        n == Len(sp_subs)
    IN  /\ n >= 1 => mins(sp_subs[1].start) = sp_start
        /\ \A k \in 1..n : mins(sp_subs[k].start) <= mins(sp_subs[k].end)
        /\ \A k \in 1..(n - 1) : mins(sp_subs[k].end) = mins(sp_subs[k + 1].start)
        /\ (n >= 1 /\ sp_i = NSplits(sp_total, sp_end - sp_start)) =>
              mins(sp_subs[n].end) = sp_end

\* A finished split into 11 parts of a span whose float step rounds short.
C8_Witness ==
    /\ sp_end - sp_start = 15
    /\ Len(sp_subs) = 11
    /\ sp_i = 11
    /\ sp_subs[11].end = <<0, 15>>

\* C9: when every query reports more than CAP and nothing fails, no call is
\* deeper than MAX_DEPTH, a floor scan runs only at depth >= MAX_DEPTH or on a
\* span below 2 minutes and makes at most FLOOR_PAGES requests, every window
\* that returned did so from a floor scan, the call ends, and it returns a set.
C9_Safety ==
    /\ f_cur.depth <= MAX_DEPTH
    /\ f_hist.deepest <= MAX_DEPTH
    /\ \A k \in 1..Len(f_stack) : f_stack[k].depth < MAX_DEPTH
    /\ f_cur.phase = "floor" =>
          /\ f_cur.page \in 1..FLOOR_PAGES
          /\ \/ f_cur.depth >= MAX_DEPTH
             \/ (f_cur.end[1] * 60 + f_cur.end[2])
                  - (f_cur.start[1] * 60 + f_cur.start[2]) < 2
    /\ (f_hist.allOver /\ ~f_hist.anyFail) => f_hist.lastLeaf \in {"none", "floor"}
    /\ (f_pc = "done" /\ f_hist.allOver /\ ~f_hist.anyFail) => f_result.kind = "count"

\* C9 (with C9_Safety): that safety always holds, and a started call ends.
C9_FloorTermination ==
    /\ []C9_Safety
    /\ (f_pc = "day") ~> (f_pc = "done")

C9_Witness ==
    /\ f_pc = "done"
    /\ f_remote = {[total |-> CAP + 1, page |-> {SynthItems}]}
    /\ f_hist.allOver
    /\ ~f_hist.anyFail
    /\ f_hist.deepest = MAX_DEPTH
    /\ f_hist.lastLeaf = "floor"
    /\ f_result = CountResult(1)

\* C10: a window is split, or scanned at the floor, only when its count query
\* reported more than 1000; a window that reported 1..1000 is paginated by the
\* call that queried it; and _fetch_repos_adaptive runs only when the
\* whole-day query reported more than 1000.
C10_NoSplitUnderCap ==
    /\ \A k \in 1..Len(f_stack) : f_stack[k].total > 1000
    /\ f_cur.phase = "floor" => f_cur.total > 1000
    /\ f_cur.phase = "pages" => f_cur.total \in 1..1000
    /\ f_pc = "adaptive" => \E t \in f_hist.dayTotal : t > 1000
    /\ (f_hist.dayTotal # {} /\ \A t \in f_hist.dayTotal : t <= 1000) =>
          (f_stack = <<>> /\ f_cur.kind # "win" /\ f_hist.overs = 0)

\* A sub-window that reported exactly 1000 is on its last page, under the
\* one split that called it.
C10_Witness ==
    /\ f_pc = "adaptive"
    /\ f_cur.kind = "win"
    /\ f_cur.phase = "pages"
    /\ f_cur.total = 1000
    /\ f_cur.page = 10
    /\ Len(f_stack) = 1

\* C11: the page-1, page-size-1 request of _fetch_repos_for_window decides the
\* call: a failed request makes it return None, total_count = 0 makes it return
\* (empty set, 0), total_count > 1000 makes it return (None, total_count), and
\* in these three cases the call issues no page request; only a total_count
\* of 1..1000 leads into its pagination loop.
C11_FirstRequestDecides ==
    [][\A r \in FreeFirstAnswers : FirstRequest(r) =>
          LET total == IF r = {} THEN 0 ELSE CHOOSE t \in r : TRUE
              after == [pc |-> f_pc', stack |-> f_stack', cur |-> f_cur',
                        result |-> f_result']
          IN  /\ (r = {} \/ total = 0 \/ total > 1000) <=> f_cur'.phase # "pages"
              /\ f_cur'.phase = "pages" => (f_cur'.total = total /\ f_cur'.page = 1)
              /\ r = {} =>
                    /\ after = Deliver(f_stack, [none |-> TRUE, repos |-> {}])
                    /\ f_stack = <<>> => (f_pc' = "done" /\ f_result' = NoneResult)
              /\ (r # {} /\ total = 0) =>
                    /\ after = Deliver(f_stack, [none |-> FALSE, repos |-> {}])
                    /\ f_stack = <<>> => (f_pc' = "done" /\ f_result' = CountResult(0))
              /\ (r # {} /\ total > 1000) =>
                    /\ f_result' = PendingResult
                    /\ f_cur.kind = "day" =>
                          /\ f_pc' = "adaptive"
                          /\ f_cur' = WindowCall("win", <<0, 0>>, <<24, 0>>, 0)
                    /\ f_cur.kind = "win" =>
                          \/ f_cur'.phase = "floor" /\ f_cur'.total = total
                          \/ /\ f_cur'.phase = "first"
                             /\ f_cur'.depth = f_cur.depth + 1
                             /\ Len(f_stack') = Len(f_stack) + 1
                             /\ f_stack'[Len(f_stack')].total = total]_vars

\* A split into three whose first sub-window failed its count query and whose
\* second reported 0: both returned at once, and the third is about to query.
C11_Witness ==
    /\ f_pc = "adaptive"
    /\ f_hist.dayTotal = {3 * SPLIT_UNIT}
    /\ f_hist.overs = 2
    /\ Len(f_stack) = 1
    /\ f_stack[1].n = 3
    /\ f_stack[1].i = 2
    /\ f_stack[1].all_repos = {}
    /\ f_hist.anyFail
    /\ f_hist.lastLeaf = "zero"
    /\ f_cur.phase = "first"

\* C12: in a split, all_repos is at every iteration the union of the sets the
\* non-failing recursive calls returned so far (a name returned by several
\* sub-windows is in it once), the parent returns that union, and so the
\* merged count is at most the sum of the sub-window counts and at least the
\* count of every single sub-window.
C12_MergeIsUnion ==
    LET ok == {k \in 1..Len(m_sub_repos) : ~m_sub_repos[k].none}
        union == UNION {m_sub_repos[k].repos : k \in ok}
        sum[k \in 0..Len(m_sub_repos)] ==
            IF k = 0 THEN 0
            ELSE sum[k - 1] + (IF k \in ok THEN Cardinality(m_sub_repos[k].repos) ELSE 0)
    IN  /\ Len(m_sub_repos) = m_i
        /\ m_all_repos = union
        /\ \A x \in Ids : x \in m_all_repos <=> \E k \in ok : x \in m_sub_repos[k].repos
        /\ Cardinality(m_all_repos) <= sum[Len(m_sub_repos)]
        /\ \A k \in ok : Cardinality(m_all_repos) >= Cardinality(m_sub_repos[k].repos)
        /\ m_pc = "done" <=> m_result # {}
        /\ m_pc = "done" => (m_i = m_n_splits /\ m_result = {union})

\* Three sub-windows: one returned {r1}, one failed, one returned {r1, r2};
\* the parent returned two names where the sub-window counts add up to three.
C12_Witness ==
    /\ m_pc = "done"
    /\ m_n_splits = 3
    /\ m_sub_repos = <<[none |-> FALSE, repos |-> {"r1"}],
                       [none |-> TRUE, repos |-> {}],
                       [none |-> FALSE, repos |-> {"r1", "r2"}]>>
    /\ m_result = {{"r1", "r2"}}

\* C13: the work list of a full-crawl run is the loaded failed_dates in
\* ascending order followed by the dates from START_DATE to yesterday that
\* are neither in contributions nor in failed_dates, in chronological order;
\* it has no duplicates, the run fetches the list in order (so every failed
\* date before any gap date), and when the run ends every listed date has
\* been fetched exactly once.
C13_WorkList ==
    c_run.kind = "full" =>
        LET F == c_run.loaded_failed
            nF == Cardinality(F)
            n == Len(c_dates)
            done == c_run.attempted
        IN  /\ \A k \in 1..n : \A j \in 1..n : c_dates[k] = c_dates[j] => k = j
            /\ nF <= n
            /\ {c_dates[k] : k \in 1..nF} = F
            /\ \A k \in 1..(nF - 1) : c_dates[k] < c_dates[k + 1]
            /\ \A k \in (nF + 1)..(n - 1) : c_dates[k] < c_dates[k + 1]
            /\ c_pc = "full" =>
                  /\ {c_dates[k] : k \in (nF + 1)..n} =
                        {d \in START_DATE..(c_today - 1) :
                            d \notin DOMAIN c_run.loaded_contrib /\ d \notin F}
                  /\ Len(done) = c_idx - 1
            /\ Len(done) <= n
            /\ \A k \in 1..Len(done) : done[k] = c_dates[k]
            /\ c_pc = "idle" => done = c_dates

\* A finished full crawl that loaded failed dates 2 and 3 and no count for
\* date 1: it fetched 2, 3 and then 1.
C13_Witness ==
    /\ c_pc = "idle"
    /\ c_run.kind = "full"
    /\ c_run.loaded_failed = {2, 3}
    /\ c_dates = <<2, 3, 1>>
    /\ c_run.attempted = <<2, 3, 1>>

\* C14: a full-crawl run leaves alone every date that was in contributions
\* and not in failed_dates when it loaded: the date is not in the work list,
\* is never fetched, and keeps its loaded count in memory and in every file
\* the run writes.  A run whose work list is empty makes no request, writes
\* nothing (the file is the one it loaded, last_updated included) and returns.
C14_CommittedUntouched ==
    c_run.kind = "full" =>
        LET keep == DOMAIN c_run.loaded_contrib \ c_run.loaded_failed
        IN  /\ \A d \in keep :
                  /\ d \notin SeqToSet(c_dates)
                  /\ d \notin SeqToSet(c_run.attempted)
                  /\ d \in DOMAIN c_contrib
                  /\ c_contrib[d] = c_run.loaded_contrib[d]
                  /\ \A doc \in c_disk :
                        /\ d \in DOMAIN doc.contributions
                        /\ doc.contributions[d] = c_run.loaded_contrib[d]
            /\ c_run.writes = 0 => c_disk = c_run.loaded_disk
            /\ c_dates = <<>> =>
                  /\ c_pc = "idle"
                  /\ c_counters.request_count = 0
                  /\ c_run.attempted = <<>>
                  /\ c_run.writes = 0
                  /\ c_disk = c_run.loaded_disk
                  /\ c_contrib = c_run.loaded_contrib

\* A finished full crawl that loaded a count of 1 for date 1, fetched only
\* date 2 (count 0) and wrote the file with date 1 still at 1.
C14_Witness ==
    /\ c_pc = "idle"
    /\ c_run.kind = "full"
    /\ c_run.loaded_failed = {}
    /\ DOMAIN c_run.loaded_contrib = {1}
    /\ c_run.loaded_contrib[1] = 1
    /\ c_run.attempted = <<2>>
    /\ c_run.writes = 1
    /\ \E doc \in c_disk :
          /\ DOMAIN doc.contributions = {1, 2}
          /\ doc.contributions[1] = 1
          /\ doc.contributions[2] = 0

\* C16: at every instant of a call of save_data or save_state, also after a
\* write error or a crash at any step, the destination file holds either the
\* complete version it held when the call began or the complete new document,
\* never a part of one; the new document is there once the call has returned;
\* and a call that raised left the version from before (save_data also
\* removed its temporary file).
C16_AtomicSave ==
    LET dest == DestOf(s_variant)
    IN  /\ c_disk \subseteq UNION SaveDocs("save_data")
        /\ s_out \subseteq UNION SaveDocs("save_state")
        /\ s_pc # "idle" =>
              /\ dest = s_old \/ dest = s_doc
              /\ s_pc \in {"saving", "raised"} => dest = s_old
              /\ s_pc = "returned" => (dest = s_doc /\ s_tmp = {})
              /\ (s_pc = "raised" /\ s_variant = "save_data") => s_tmp = {}

\* save_data raised while writing over an older version: the older version
\* is still the file, and the temporary file is gone.
C16_Witness ==
    /\ s_pc = "raised"
    /\ s_variant = "save_data"
    /\ s_old # {}
    /\ s_doc # s_old
    /\ c_disk = s_old
    /\ s_tmp = {}

\* C15, as stated: wherever a full-crawl run is killed, fewer than
\* CHECKPOINT_EVERY of the dates it committed in memory are missing from the
\* file.
C15_LosesLessThanN ==
    c_run.kind = "full" =>
        Cardinality({d \in SeqToSet(c_run.attempted) :
                        /\ d \in DOMAIN c_contrib
                        /\ d \notin c_failed
                        /\ d \notin DOMAIN LoadData(c_disk).contributions})
          <= CHECKPOINT_EVERY - 1

\* C15, amended: wherever a full-crawl run is killed, at most CHECKPOINT_EVERY
\* of the dates it committed in memory are missing from the file, and fewer
\* than CHECKPOINT_EVERY unless it dies between the commit that makes a
\* checkpoint due and the end of that checkpoint's write; right after every
\* checkpoint write the series in the file is the loaded series plus every
\* success the run has committed so far.
C15_LosesAtMostN ==
    c_run.kind = "full" =>
        LET succ == {d \in SeqToSet(c_run.attempted) :
                        d \in DOMAIN c_contrib /\ d \notin c_failed}
            lost == {d \in succ : d \notin DOMAIN LoadData(c_disk).contributions}
            at == IF c_pc \in {"killed", "interrupted"} THEN c_run.died_at ELSE c_pc
            loaded == c_run.loaded_contrib
        IN  /\ Cardinality(lost) <= CHECKPOINT_EVERY
            /\ at # "checkpoint" => Cardinality(lost) <= CHECKPOINT_EVERY - 1
            /\ (c_pc = "checkpoint" /\ s_pc = "returned") =>
                  /\ lost = {}
                  /\ c_counters.new_successes % CHECKPOINT_EVERY = 0
                  /\ Cardinality(succ) = c_counters.new_successes
                  /\ \E doc \in c_disk :
                        /\ DOMAIN doc.contributions = DOMAIN loaded \cup succ
                        /\ \A d \in succ : doc.contributions[d] = c_contrib[d]
                        /\ \A d \in DOMAIN loaded \ succ :
                              doc.contributions[d] = loaded[d]

\* Right after the second checkpoint write of a run that loaded a count for
\* date 1: the file holds dates 1..51.
C15_Witness ==
    /\ c_pc = "checkpoint"
    /\ s_pc = "returned"
    /\ c_run.writes = 1
    /\ c_counters.new_successes = 2 * CHECKPOINT_EVERY
    /\ DOMAIN c_run.loaded_contrib = {1}
    /\ \E doc \in c_disk : DOMAIN doc.contributions = 1..(2 * CHECKPOINT_EVERY + 1)

\* C17: when a full-crawl run ends by a KeyboardInterrupt, every success it
\* had committed in memory before the interrupt is in the file.
C17_InterruptPersists ==
    (c_run.kind = "full" /\ c_pc = "interrupted") =>
        \A d \in SeqToSet(c_run.attempted) :
            (d \in DOMAIN c_contrib /\ d \notin c_failed) =>
                \E doc \in c_disk :
                    /\ d \in DOMAIN doc.contributions
                    /\ doc.contributions[d] = c_contrib[d]

\* C18: in every file save_data wrote, the cached total of the metadata is
\* the sum of the counts of that file's contributions, date by date.
C18_TotalIsSum ==
    \A doc \in c_disk :
        LET c == doc.contributions
            sum[k \in 0..(MaxDay + 1)] ==
                IF k = 0 THEN 0
                ELSE sum[k - 1] + (IF k \in DOMAIN c THEN c[k] ELSE 0)
        IN  /\ DOMAIN c \subseteq 1..(MaxDay + 1)
            /\ doc.total = sum[MaxDay + 1]

\* A file written by a later run over an earlier file: three dates with
\* counts 1, 0 and 1, one failed date gone again, total 2.
C18_Witness ==
    /\ c_pc = "idle"
    /\ c_run.loaded_disk # {}
    /\ c_run.loaded_failed # {}
    /\ c_run.writes = 1
    /\ \E doc \in c_disk :
          /\ DOMAIN doc.contributions = {1, 2, 3}
          /\ doc.contributions[1] = 1
          /\ doc.contributions[2] = 0
          /\ doc.contributions[3] = 1
          /\ doc.failed_dates = <<>>
          /\ doc.total = 2

\* C19: the split factor of a window of span >= 2 minutes that reported more
\* than 1000 is the least of max(2, total_count // 800), 12 and span; it is
\* at least 2, at most 12 and at most span, and the loop generates exactly
\* that many sub-windows.
C19_SplitFactor ==
    LET span == sp_end - sp_start
        q == sp_total \div 800
        wanted == IF q >= 2 THEN q ELSE 2
        n == NSplits(sp_total, span)
    IN  (span >= 2 /\ sp_total > 1000) =>
            /\ 2 <= n /\ n <= 12 /\ n <= span
            /\ n <= wanted
            /\ n = wanted \/ n = 12 \/ n = span
            /\ Len(sp_subs) = sp_i
            /\ sp_i <= n
            /\ ~ENABLED SplitStep <=> sp_i = n

\* A 5-minute window that reported 10,400: 13 parts wanted, 5 made.
C19_Witness ==
    /\ sp_end - sp_start = 5
    /\ sp_total = 13 * SPLIT_UNIT
    /\ sp_i = 5
    /\ Len(sp_subs) = 5
    /\ ~ENABLED SplitStep

\* C20: the _fetch_repos_adaptive call that fetch_unique_repo_count makes
\* returns None exactly when the count query of its own window failed;
\* failures inside its sub-windows never make the result None, and when the
\* count query of every sub-window failed the result is the empty set
\* (count 0), not failure.
C20_NoneOnlyFromOwnQuery ==
    (f_pc = "done" /\ \E t \in f_hist.dayTotal : t > 1000) =>
        /\ f_result = NoneResult <=> f_hist.winTotal = {}
        /\ f_hist.winTotal # {} => f_result.kind = "count"
        /\ ((\E t \in f_hist.winTotal : t > 1000) /\ ~f_hist.subAnswered) =>
              f_result = CountResult(0)

\* A split into three whose sub-windows all failed their count query.
C20_Witness ==
    /\ f_pc = "done"
    /\ f_hist.dayTotal = {3 * SPLIT_UNIT}
    /\ f_hist.winTotal = {3 * SPLIT_UNIT}
    /\ ~f_hist.subAnswered
    /\ f_hist.anyFail
    /\ f_hist.lastLeaf = "fail"
    /\ f_result = CountResult(0)

\* C21: a window whose count query reported 1..1000 requests the pages
\* 1, 2, ..., ceil(total_count / 100) of size 100, each once (1 to 10 pages,
\* one page for total_count = 5); a page whose request failed adds nothing
\* and the next page is requested all the same; after the last page the
\* window returns the union of the names on the pages that came back, which
\* are at most total_count names.
C21_Pagination ==
    [][\A r \in PageAnswers : PageRequest(r) =>
          LET total == f_cur.total
              pages == CHOOSE k \in 1..10 : 100 * k >= total /\ 100 * (k - 1) < total
              got == IF r = {} THEN {} ELSE CHOOSE s \in r : TRUE
              merged == f_cur.repos \cup got
              after == [pc |-> f_pc', stack |-> f_stack', cur |-> f_cur',
                        result |-> f_result']
          IN  /\ total \in 1..1000
              /\ total = 5 => pages = 1
              /\ f_cur.page \in 1..pages
              /\ Cardinality(merged) <= total
              /\ f_cur.page < pages =>
                    f_cur' = [f_cur EXCEPT !.page = f_cur.page + 1, !.repos = merged]
              /\ f_cur.page = pages =>
                    /\ after = Deliver(f_stack, [none |-> FALSE, repos |-> merged])
                    /\ f_stack = <<>> =>
                          (f_pc' = "done" /\ f_result' = CountResult(Cardinality(merged)))]_vars

\* The whole-day window reported 150, its first page failed, and the second
\* page is requested with nothing collected so far.
C21_Witness ==
    /\ f_pc = "day"
    /\ f_cur.phase = "pages"
    /\ f_cur.total = 150
    /\ f_cur.page = 2
    /\ f_cur.repos = {}
    /\ f_hist.anyFail

\* C22: a full-crawl run that has made n fetches has taken a cooldown before
\* each of the fetches number 151, 301, ... among them and at no other point:
\* (n - 1) \div 150 cooldowns, none before the first fetch, none after the
\* last, whatever the fetches returned.
C22_CooldownCadence ==
    [][c_pc = "full" =>
          LET n == c_counters.request_count
              took == c_counters'.cooldowns - c_counters.cooldowns
          IN  /\ c_counters'.request_count = n + 1
              /\ took = (IF n >= 150 /\ n % 150 = 0 THEN 1 ELSE 0)
              /\ n = 0 => took = 0
              /\ c_pc' = "idle" => c_counters'.cooldowns = (Len(c_dates) - 1) \div 150]_vars

C22_Witness ==
    /\ c_pc = "idle"
    /\ c_run.kind = "full"
    /\ c_counters.request_count = 2 * COOLDOWN_EVERY + 1
    /\ c_counters.cooldowns = 2
    /\ COOLDOWN_EVERY \in c_failed
    /\ (COOLDOWN_EVERY + 1) \notin c_failed


\* C23: the work list of update_today.main is yesterday, today and then the
\* loaded failed dates that are among the 10 smallest and not yet listed, in
\* ascending order: at most 12 dates, none twice.  A date outside the list
\* keeps its loaded count and its loaded failed membership, in memory and in
\* the file the run leaves.
C23_LightFrame ==
    c_run.kind = "light" =>
        LET yesterday == c_today - 1
            loaded == c_run.loaded_failed
            retry == {d \in loaded : /\ Cardinality({e \in loaded : e < d}) < 10
                                     /\ d \notin {yesterday, c_today}}
            listed == SeqToSet(c_dates)
            before == LoadData(c_run.loaded_disk)
            after == LoadData(c_disk)
        IN  /\ Len(c_dates) = 2 + Cardinality(retry)
            /\ c_dates[1] = yesterday /\ c_dates[2] = c_today
            /\ \A k \in 3..Len(c_dates) : c_dates[k] \in retry
            /\ \A j, k \in 3..Len(c_dates) : j < k => c_dates[j] < c_dates[k]
            /\ Len(c_dates) <= 12
            /\ Cardinality(listed) = Len(c_dates)
            /\ \A d \in (1..c_today) \ listed :
                  /\ d \in c_failed <=> d \in loaded
                  /\ d \in SeqToSet(after.failed_dates) <=> d \in SeqToSet(before.failed_dates)
                  /\ d \in DOMAIN c_contrib <=> d \in DOMAIN before.contributions
                  /\ d \in DOMAIN after.contributions <=> d \in DOMAIN before.contributions
                  /\ d \in DOMAIN before.contributions =>
                        /\ c_contrib[d] = before.contributions[d]
                        /\ after.contributions[d] = before.contributions[d]

C23_Witness ==
    /\ c_pc = "idle"
    /\ c_run.kind = "light"
    /\ c_run.writes = 1
    /\ Cardinality(c_run.loaded_failed) = 14
    /\ Len(c_dates) = 12
    /\ c_failed = {11, 12, 13}
    /\ SeqToSet(LoadData(c_disk).failed_dates) = {11, 12, 13}
    /\ LoadData(c_disk).contributions[1] = 0
    /\ LoadData(c_disk).contributions[11] = 1


\* C24: an attempt that ends in HTTP 5xx or in a network error sleeps
\* base * 2^attempt seconds, attempt being the zero-based index of the
\* attempt within the call (attempts that ended in 403/429 count) and base
\* being 5 in _api_request and the two fetch_commit_count copies and 3 in
\* api_get_json; three 5xx in a row in _api_request sleep 5, 10 and 20 seconds
\* and so do three network errors.
C24_BackoffSchedule ==
    LET base == IF t_variant = "markers" THEN 3 ELSE 5
        two_to == <<1, 2, 4, 8>>
        backs(e) == e.outcome.status >= 500 \/ e.outcome.status = 0
    IN  /\ \A k \in 1..Len(t_log) :
              /\ t_log[k].attempt = k - 1
              /\ backs(t_log[k]) => t_log[k].slept = {base * two_to[k]}
        /\ (t_variant = "api" /\ Len(t_log) = 3) =>
              /\ (\A k \in 1..3 : t_log[k].outcome.status >= 500) =>
                    <<t_log[1].slept, t_log[2].slept, t_log[3].slept>> = <<{5}, {10}, {20}>>
              /\ (\A k \in 1..3 : t_log[k].outcome.status = 0) =>
                    <<t_log[1].slept, t_log[2].slept, t_log[3].slept>> = <<{5}, {10}, {20}>>

C24_Witness ==
    /\ t_variant = "markers"
    /\ t_pc = "done"
    /\ Len(t_log) = 4
    /\ t_log[1].outcome.status = 403
    /\ t_log[2].outcome.status = 0
    /\ t_log[3].outcome.status = 429
    /\ t_log[4].outcome.status = 503
    /\ t_log[2].slept = {6}
    /\ t_log[4].slept = {24}


\* C25: when a full-crawl run over a non-empty work list has completed, the
\* final save has happened and the file holds the loaded contributions
\* overridden by the successes of the run, and as failed_dates exactly the
\* dates whose fetch in the run failed, in ascending order; every date that
\* was loaded as failed was fetched again.
C25_FullRunResult ==
    (c_pc = "idle" /\ c_run.kind = "full" /\ c_dates # <<>>) =>
        LET done == c_run.attempted
            res == c_run.results
            okAt == {k \in 1..Len(done) : res[k] # {}}
            succ == {done[k] : k \in okAt}
            errored == {done[k] : k \in (1..Len(done)) \ okAt}
            countOf(d) == CHOOSE c \in 0..MaxCount :
                              \E k \in okAt : done[k] = d /\ res[k] = {c}
            loaded == c_run.loaded_contrib
        IN  /\ c_run.writes >= 1
            /\ done = c_dates
            /\ c_run.loaded_failed \subseteq SeqToSet(done)
            /\ Cardinality(c_disk) = 1
            /\ \A doc \in c_disk :
                  /\ DOMAIN doc.contributions = DOMAIN loaded \cup succ
                  /\ \A d \in DOMAIN doc.contributions :
                        doc.contributions[d] = (IF d \in succ THEN countOf(d) ELSE loaded[d])
                  /\ SeqToSet(doc.failed_dates) = errored
                  /\ Len(doc.failed_dates) = Cardinality(errored)
                  /\ \A j, k \in 1..Len(doc.failed_dates) :
                        j < k => doc.failed_dates[j] < doc.failed_dates[k]

C25_Witness ==
    /\ c_pc = "idle"
    /\ c_run.kind = "full"
    /\ c_run.loaded_failed = {1, 2}
    /\ c_run.attempted = <<1, 2>>
    /\ c_run.results = <<{}, {1}>>
    /\ c_run.writes = 1


\* C26: a lightweight run that has ended after a fetch returned a count other
\* than the loaded one for its date (or for a date without a loaded count), or
\* with a failed set other than the loaded one, has written the file, and the
\* file holds the counts and the failed set the run ended with.
C26_ChangesAreWritten ==
    (c_pc = "idle" /\ c_run.kind = "light") =>
        LET done == c_run.attempted
            res == c_run.results
            loaded == c_run.loaded_contrib
            newCount == \E k \in 1..Len(done) :
                           /\ res[k] # {}
                           /\ (done[k] \notin DOMAIN loaded \/ res[k] # {loaded[done[k]]})
            moved == \E d \in 1..c_today : (d \in c_failed) # (d \in c_run.loaded_failed)
        IN  (newCount \/ moved) =>
              /\ c_run.writes = 1
              /\ Cardinality(c_disk) = 1
              /\ \A doc \in c_disk :
                    /\ doc.contributions = c_contrib
                    /\ SeqToSet(doc.failed_dates) = c_failed
                    /\ \A k \in 1..Len(done) :
                          res[k] # {} => {doc.contributions[done[k]]} = res[k]

C26_Witness ==
    /\ c_pc = "idle"
    /\ c_run.kind = "light"
    /\ c_run.loaded_disk # {}
    /\ c_run.loaded_failed = c_failed
    /\ c_run.attempted = <<2, 3>>
    /\ c_run.results = <<{1}, {0}>>
    /\ c_run.loaded_contrib = [d \in {1, 2} |-> 1]
    /\ c_run.writes = 1


\* C27: every sub-window a split of a window of at least 2 minutes generates
\* is non-empty and strictly shorter than the window: 0 <= sub_start < sub_end
\* <= 1440 and 1 <= sub_end - sub_start < span; its two time strings are valid
\* HH:MM times from 00:00 to 24:00.
C27_SubWindowsShrink ==
    LET span == sp_end - sp_start
        valid(t) == /\ t[1] \in 0..24
                    /\ t[2] \in 0..59
                    /\ t[1] = 24 => t[2] = 0
    IN  span >= 2 =>
          \A k \in 1..Len(sp_subs) :
              LET sub_start == sp_subs[k].start[1] * 60 + sp_subs[k].start[2]
                  sub_end == sp_subs[k].end[1] * 60 + sp_subs[k].end[2]
              IN  /\ 0 <= sub_start
                  /\ sub_start < sub_end
                  /\ sub_end <= 1440
                  /\ sub_end - sub_start >= 1
                  /\ sub_end - sub_start < span
                  /\ valid(sp_subs[k].start)
                  /\ valid(sp_subs[k].end)

C27_Witness ==
    /\ sp_start = 600
    /\ sp_end = 602
    /\ sp_total = MAX_SPLITS * SPLIT_UNIT
    /\ sp_subs = <<[start |-> <<10, 0>>, end |-> <<10, 1>>],
                   [start |-> <<10, 1>>, end |-> <<10, 2>>]>>


\* C28: in every file update_doc_markers writes, each marker's totals entry
\* and the sum of its series entry both equal the number of entries of its
\* repo_first_seen map (a marker without a totals or series entry counts 0).
C28_AggregatesAgree ==
    \A doc \in k_file : \A m \in MARKERS :
        LET n == Cardinality(DOMAIN doc.repo_first_seen[m])
            total == IF m \in DOMAIN doc.totals THEN doc.totals[m] ELSE 0
            series == IF m \in DOMAIN doc.series THEN doc.series[m] ELSE <<>>
        IN  /\ total = n
            /\ SumValues(series) = n


\* C29: in one call of the transport as many attempts slept as ended in a
\* retryable failure, the one on the last allowed attempt included: a call
\* that used up its attempts returned None after MAX_RETRIES sleeps (5, 10 and
\* 20 seconds, 35 in all, for three 5xx) and sent no request after the last.
C29_SleepPerFailure ==
    LET n == Len(t_log)
        retryable == {k \in 1..n : t_log[k].outcome.status \in {0, 403, 429}
                                     \/ t_log[k].outcome.status >= 500}
        sleeps == {k \in 1..n : t_log[k].slept # {}}
    IN  t_variant \in Variants =>
          /\ sleeps = retryable
          /\ (t_pc = "done" /\ t_result = ReturnNone /\ retryable = 1..n /\ n > 0) =>
                /\ n = MAX_RETRIES
                /\ Cardinality(sleeps) = MAX_RETRIES
                /\ t_attempt = MAX_RETRIES
                /\ t_now = t_log[n].at + SumSleep(t_log[n].slept)
                /\ (\A k \in 1..n : t_log[k].outcome.status >= 500) =>
                      /\ <<t_log[1].slept, t_log[2].slept, t_log[3].slept>> = <<{5}, {10}, {20}>>
                      /\ t_now = 35

C29_Witness ==
    /\ t_pc = "done"
    /\ t_variant = "api"
    /\ t_result = ReturnNone
    /\ Len(t_log) = 3
    /\ t_log[1].outcome.status = 500
    /\ t_log[2].outcome.status = 503
    /\ t_log[3].outcome.status = 500
    /\ t_log[3].slept = {20}
    /\ t_now = 35

=============================================================================
